---- MODULE Spec2Model ----
(***************************************************************************)
(* Model of the geoip-server client address resolver (getClientIP) and of *)
(* its IP classification helpers (isPrivateIP, isValidIP,                 *)
(* isValidPublicIP).                                                       *)
(*                                                                         *)
(* A Go string is a sequence of one-character strings, so that            *)
(* strings.Split, strings.TrimSpace, strings.Trim, net.ParseIP and        *)
(* net.ParseCIDR are computed on the text as the code computes them.      *)
(* A net.IP is a sequence of bytes (4 or 16 long); the nil IP is <<>>.    *)
(***************************************************************************)
EXTENDS Integers, Sequences, FiniteSets, TLC

(***************************************************************************)
(* Text helpers: package strings                                           *)
(***************************************************************************)

\* The empty Go string "".
Empty == << >>

\* White space removed by strings.TrimSpace.
SpaceChars == {" ", "\t", "\n", "\r"}

RECURSIVE TrimLeft(_, _)
\* strings.TrimLeft(s, cutset): drop leading characters that are in cutset.
TrimLeft(s, cutset) ==
    IF s = << >> THEN << >>
    ELSE IF Head(s) \in cutset THEN TrimLeft(Tail(s), cutset)
    ELSE s

RECURSIVE TrimRight(_, _)
\* strings.TrimRight(s, cutset): drop trailing characters that are in cutset.
TrimRight(s, cutset) ==
    IF s = << >> THEN << >>
    ELSE IF s[Len(s)] \in cutset THEN TrimRight(SubSeq(s, 1, Len(s) - 1), cutset)
    ELSE s

\* strings.Trim(s, cutset)
Trim(s, cutset) == TrimRight(TrimLeft(s, cutset), cutset)

\* strings.TrimSpace(s)
TrimSpace(s) == Trim(s, SpaceChars)

\* strings.HasPrefix(s, prefix)
HasPrefix(s, prefix) ==
    /\ Len(s) >= Len(prefix)
    /\ SubSeq(s, 1, Len(prefix)) = prefix

\* strings.TrimPrefix(s, prefix)
TrimPrefix(s, prefix) ==
    IF HasPrefix(s, prefix) THEN SubSeq(s, Len(prefix) + 1, Len(s)) ELSE s

RECURSIVE SplitFrom(_, _, _)
\* Worker of Split: cur is the piece being collected.
SplitFrom(s, sep, cur) ==
    IF s = << >> THEN << cur >>
    ELSE IF Head(s) = sep THEN << cur >> \o SplitFrom(Tail(s), sep, << >>)
    ELSE SplitFrom(Tail(s), sep, Append(cur, Head(s)))

\* strings.Split(s, sep) for a one-character separator: always at least one
\* piece, the pieces between the separators, empty pieces kept.
Split(s, sep) == SplitFrom(s, sep, << >>)

(***************************************************************************)
(* net.ParseIP                                                             *)
(***************************************************************************)

\* The nil net.IP.
NilIP == << >>

DecDigits == {"0", "1", "2", "3", "4", "5", "6", "7", "8", "9"}

HexDigits == DecDigits \cup {"a", "b", "c", "d", "e", "f",
                             "A", "B", "C", "D", "E", "F"}

\* Value of one hexadecimal (or decimal) digit.
DigitVal(ch) ==
    CASE ch = "0" -> 0 [] ch = "1" -> 1 [] ch = "2" -> 2 [] ch = "3" -> 3
      [] ch = "4" -> 4 [] ch = "5" -> 5 [] ch = "6" -> 6 [] ch = "7" -> 7
      [] ch = "8" -> 8 [] ch = "9" -> 9
      [] ch \in {"a", "A"} -> 10 [] ch \in {"b", "B"} -> 11
      [] ch \in {"c", "C"} -> 12 [] ch \in {"d", "D"} -> 13
      [] ch \in {"e", "E"} -> 14 [] ch \in {"f", "F"} -> 15

RECURSIVE NumVal(_, _, _)
\* Value of the digit string s in the given base, acc the value so far.
NumVal(s, base, acc) ==
    IF s = << >> THEN acc
    ELSE NumVal(Tail(s), base, acc * base + DigitVal(Head(s)))

AllIn(s, set) == \A i \in 1..Len(s) : s[i] \in set

\* One dotted-decimal field: 1 to 3 decimal digits, no leading zero, at most
\* 255.
ValidV4Field(f) ==
    /\ Len(f) >= 1
    /\ Len(f) <= 3
    /\ AllIn(f, DecDigits)
    /\ (Len(f) > 1 => f[1] # "0")
    /\ NumVal(f, 10, 0) <= 255

\* The four bytes of the four dotted-decimal fields, or NilIP.
ParseIPv4Fields(fields) ==
    IF Len(fields) = 4 /\ \A i \in 1..4 : ValidV4Field(fields[i])
    THEN [i \in 1..4 |-> NumVal(fields[i], 10, 0)]
    ELSE NilIP

\* The four bytes of a dotted-decimal IPv4 address, or NilIP.
ParseIPv4(s) == ParseIPv4Fields(Split(s, "."))

\* One IPv6 group: 1 to 4 hexadecimal digits.
ValidV6Group(g) ==
    /\ Len(g) >= 1
    /\ Len(g) <= 4
    /\ AllIn(g, HexDigits)

\* The two bytes of the 16-bit value v.
WordBytes(v) == << v \div 256, v % 256 >>

\* The two bytes of one IPv6 group.
GroupBytes(g) == WordBytes(NumVal(g, 16, 0))

\* Marks a list of pieces that is not a list of IPv6 groups.
BadGroups == << -1 >>

\* The bytes b of an embedded IPv4 address, BadGroups when it did not parse.
OrBadGroups(b) == IF b = NilIP THEN BadGroups ELSE b

\* The bytes of one ":"-separated piece: a group, or, where v4ok holds, a
\* dotted-decimal IPv4 address (4 bytes).
PieceBytes(g, v4ok) ==
    IF ValidV6Group(g) THEN GroupBytes(g)
    ELSE IF v4ok THEN OrBadGroups(ParseIPv4(g))
    ELSE BadGroups

\* The bytes of a piece followed by the bytes of the pieces after it.
JoinGroups(here, rest) ==
    IF here = BadGroups \/ rest = BadGroups THEN BadGroups ELSE here \o rest

RECURSIVE GroupsBytes(_, _)
\* The bytes of a list of ":"-separated pieces. When v4tail holds, the last
\* piece may be a dotted-decimal IPv4 address. A bad piece gives BadGroups.
GroupsBytes(gs, v4tail) ==
    IF gs = << >> THEN << >>
    ELSE JoinGroups(PieceBytes(Head(gs), v4tail /\ Len(gs) = 1),
                    GroupsBytes(Tail(gs), v4tail))

\* Position of the first "::" in s, 0 when there is none.
EllipsisAt(s) ==
    LET ps == {i \in 1..(Len(s) - 1) : s[i] = ":" /\ s[i + 1] = ":"}
    IN IF ps = {} THEN 0 ELSE CHOOSE i \in ps : \A j \in ps : i <= j

Zeros(n) == [i \in 1..n |-> 0]

\* An address written without "::" has exactly sixteen bytes.
SixteenOrNil(b) == IF b # BadGroups /\ Len(b) = 16 THEN b ELSE NilIP

\* The bytes of the text on one side of "::".
SideBytes(t, v4tail) ==
    IF t = << >> THEN << >> ELSE GroupsBytes(Split(t, ":"), v4tail)

\* The bytes before and after "::" with the zero groups it stands for, at
\* least one, in between.
ExpandEllipsis(fb, bb) ==
    IF fb # BadGroups /\ bb # BadGroups /\ Len(fb) + Len(bb) <= 14
    THEN fb \o Zeros(16 - Len(fb) - Len(bb)) \o bb
    ELSE NilIP

\* The sixteen bytes of a textual IPv6 address whose first "::" is at e (0:
\* none), or NilIP. An embedded IPv4 address only at the end; no zone.
ParseIPv6At(s, e) ==
    IF e = 0
    THEN SixteenOrNil(GroupsBytes(Split(s, ":"), TRUE))
    ELSE ExpandEllipsis(SideBytes(SubSeq(s, 1, e - 1), FALSE),
                        SideBytes(SubSeq(s, e + 2, Len(s)), TRUE))

\* The sixteen bytes of a textual IPv6 address, or NilIP.
ParseIPv6(s) == ParseIPv6At(s, EllipsisAt(s))

\* The 16-byte form net.ParseIP gives the IPv4 address of bytes b
\* (::ffff:a.b.c.d), NilIP for NilIP.
V4InV6(b) == IF b = NilIP THEN NilIP ELSE Zeros(10) \o << 255, 255 >> \o b

\* net.ParseIP(s): a 16-byte net.IP, or NilIP when s is not the text of an
\* IPv4 or IPv6 address.
ParseIP(s) ==
    IF \E i \in 1..Len(s) : s[i] = ":"
    THEN ParseIPv6(s)
    ELSE V4InV6(ParseIPv4(s))

(***************************************************************************)
(* net.IP.To4, net.ParseCIDR, net.IPNet.Contains                           *)
(***************************************************************************)

\* ip.To4(): the 4-byte form of an IPv4 address, NilIP for any other IP.
To4(ip) ==
    IF Len(ip) = 4 THEN ip
    ELSE IF /\ Len(ip) = 16
            /\ \A i \in 1..10 : ip[i] = 0
            /\ ip[11] = 255
            /\ ip[12] = 255
         THEN SubSeq(ip, 13, 16)
         ELSE NilIP

\* 2^n for n in 0..8.
Pow2(n) == << 1, 2, 4, 8, 16, 32, 64, 128, 256 >>[n + 1]

\* Number of mask bits that fall in byte i (1-based) of a mask of `ones`
\* leading one bits.
MaskBits(ones, i) ==
    LET r == ones - 8 * (i - 1)
    IN IF r <= 0 THEN 0 ELSE IF r >= 8 THEN 8 ELSE r

\* b & m for the mask byte m that has k leading one bits.
AndMask(b, k) ==
    IF k = 8 THEN b
    ELSE IF k = 0 THEN 0
    ELSE (b \div Pow2(8 - k)) * Pow2(8 - k)

\* ip.Mask(mask) for a mask of `ones` leading one bits, ip and mask of the
\* same length.
MaskIP(ip, ones) == [i \in 1..Len(ip) |-> AndMask(ip[i], MaskBits(ones, i))]

\* Marks a CIDR text that does not parse (ParseCIDR's err # nil).
NoNet == [ip |-> NilIP, ones |-> -1]

\* The prefix length written after "/", -1 when it is not a number.
PrefixLen(mask) ==
    IF Len(mask) >= 1 /\ Len(mask) <= 3 /\ AllIn(mask, DecDigits)
    THEN NumVal(mask, 10, 0)
    ELSE -1

\* The IPNet of address ip and prefix length n: the masked address, 4 bytes
\* long for an IPv4 network and 16 for an IPv6 one.
MakeNet(ip, n) ==
    IF ip = NilIP \/ n < 0 \/ n > 8 * Len(ip) THEN NoNet
    ELSE [ip |-> MaskIP(ip, n), ones |-> n]

\* The IPNet of the two parts of "address/length".
ParseCIDRParts(parts) ==
    IF Len(parts) # 2 THEN NoNet
    ELSE MakeNet(IF \E i \in 1..Len(parts[1]) : parts[1][i] = ":"
                 THEN ParseIPv6(parts[1])
                 ELSE ParseIPv4(parts[1]),
                 PrefixLen(parts[2]))

\* net.ParseCIDR(s): the network of "address/length", or NoNet.
ParseCIDR(s) == ParseCIDRParts(Split(s, "/"))

\* The network contains the address of bytes x.
ContainsBytes(network, x) ==
    /\ Len(x) = Len(network.ip)
    /\ \A i \in 1..Len(x) :
          AndMask(network.ip[i], MaskBits(network.ones, i))
            = AndMask(x[i], MaskBits(network.ones, i))

\* network.Contains(ip): ip is brought to its 4-byte form when it is an
\* IPv4 address; addresses of the other family are never contained.
Contains(network, ip) ==
    ContainsBytes(network, IF To4(ip) # NilIP THEN To4(ip) ELSE ip)

(***************************************************************************)
(* IP classification: isPrivateIP, isValidIP, isValidPublicIP              *)
(***************************************************************************)

\* privateRanges with 172.16.0.0/16 written for 172.16.0.0/12.
privateRanges_Slash16 ==
    << << "1", "0", ".", "0", ".", "0", ".", "0", "/", "8" >>,
       << "1", "7", "2", ".", "1", "6", ".", "0", ".", "0", "/", "1", "6" >>,
       << "1", "9", "2", ".", "1", "6", "8", ".", "0", ".", "0", "/", "1", "6" >>,
       << "1", "2", "7", ".", "0", ".", "0", ".", "0", "/", "8" >>,
       << "1", "6", "9", ".", "2", "5", "4", ".", "0", ".", "0", "/", "1", "6" >>,
       << ":", ":", "1", "/", "1", "2", "8" >>,
       << "f", "c", "0", "0", ":", ":", "/", "7" >>,
       << "f", "e", "8", "0", ":", ":", "/", "1", "0" >> >>

\* The privateRanges table of isPrivateIP, in the order of the source:
\* "10.0.0.0/8", "172.16.0.0/12", "192.168.0.0/16", "127.0.0.0/8",
\* "169.254.0.0/16", "::1/128", "fc00::/7", "fe80::/10".
privateRanges ==
    << << "1", "0", ".", "0", ".", "0", ".", "0", "/", "8" >>,
       << "1", "7", "2", ".", "1", "6", ".", "0", ".", "0", "/", "1", "2" >>,
       << "1", "9", "2", ".", "1", "6", "8", ".", "0", ".", "0", "/", "1", "6" >>,
       << "1", "2", "7", ".", "0", ".", "0", ".", "0", "/", "8" >>,
       << "1", "6", "9", ".", "2", "5", "4", ".", "0", ".", "0", "/", "1", "6" >>,
       << ":", ":", "1", "/", "1", "2", "8" >>,
       << "f", "c", "0", "0", ":", ":", "/", "7" >>,
       << "f", "e", "8", "0", ":", ":", "/", "1", "0" >> >>

\* net.ParseCIDR(cidr) of every entry of privateRanges: the table is the
\* same in every call, and so are the networks the loop parses from it.
privateNetworks == [k \in 1..Len(privateRanges) |-> ParseCIDR(privateRanges[k])]

\* One round of the loop of isPrivateIP: a range that does not parse is
\* passed over (continue).
InRange(network, ip) == network # NoNet /\ Contains(network, ip)

\* isPrivateIP once ipStr is parsed: false for the nil IP; otherwise whether
\* some range of privateRanges contains the address.
isPrivateParsed(ip) ==
    IF ip = NilIP THEN FALSE
    ELSE \E k \in 1..Len(privateRanges) : InRange(privateNetworks[k], ip)

\* isPrivateIP(ipStr)
isPrivateIP(ipStr) == isPrivateParsed(ParseIP(ipStr))

\* isValidIP(ipStr): net.ParseIP(ipStr) != nil
isValidIP(ipStr) == ParseIP(ipStr) # NilIP

\* isValidPublicIP without the private check.
isValidPublicIP_AnyValid(ipStr) == isValidIP(ipStr)

\* isValidPublicIP(ipStr): valid and not private
isValidPublicIP(ipStr) == isValidIP(ipStr) /\ ~isPrivateIP(ipStr)

(***************************************************************************)
(* The request and the client address resolver: getClientIP                *)
(***************************************************************************)

\* The request headers getClientIP reads, and three forwarding headers of
\* other proxies that a request may carry as well.
HeaderNames ==
    { "CF-Connecting-IP", "CF-IPCountry", "True-Client-IP", "X-Real-IP",
      "X-Forwarded-For", "X-Forwarded", "Forwarded",
      "Client-IP", "Cluster-Client-IP", "Original-Forwarded-For" }

\* c.GetHeader(key): the value of the header, "" when the request does not
\* carry it.
GetHeader(c, key) == c.hdr[key]

\* c.ClientIP() replaced by c.Request.RemoteAddr, which carries the port.
ClientIP_WithPort(c) == c.peer \o << ":", "8", "0", "8", "0" >>

\* c.ClientIP(): the address of the transport peer as the router reports it
\* with no trusted proxy configured (SetTrustedProxies(nil)): request
\* headers are not consulted.
ClientIP(c) == c.peer

\* "for=" as a Go string.
ForPrefix == << "f", "o", "r", "=" >>

RECURSIVE FirstPublic_AnyValid(_)
\* The loop with isValidIP for isValidPublicIP: the first valid entry.
FirstPublic_AnyValid(ips) ==
    IF ips = << >> THEN << >>
    ELSE LET cleanIP == TrimSpace(Head(ips))
         IN IF isValidIP(cleanIP) THEN << cleanIP >>
            ELSE FirstPublic_AnyValid(Tail(ips))

RECURSIVE FirstPublic(_)
\* The loop over the entries of X-Forwarded-For: the first entry that is a
\* valid public IP once trimmed, as a one-element sequence; << >> when the
\* loop ends without a return.
FirstPublic(ips) ==
    IF ips = << >> THEN << >>
    ELSE LET cleanIP == TrimSpace(Head(ips))
         IN IF isValidPublicIP(cleanIP) THEN << cleanIP >>
            ELSE FirstPublic(Tail(ips))

\* The value of the "for" field of one part of the Forwarded header: quotes
\* removed, then square brackets.
ForValue(part) ==
    Trim(Trim(TrimPrefix(TrimSpace(part), ForPrefix), {"\""}), {"[", "]"})

RECURSIVE FirstFor(_)
\* The loop over the ";"-separated parts of the Forwarded header: the first
\* "for=" value that is a valid public IP, as a one-element sequence; << >>
\* when the loop ends without a return.
FirstFor(parts) ==
    IF parts = << >> THEN << >>
    ELSE LET part == Head(parts)
         IN IF /\ HasPrefix(TrimSpace(part), ForPrefix)
               /\ isValidPublicIP(ForValue(part))
            THEN << ForValue(part) >>
            ELSE FirstFor(Tail(parts))

\* The check every single-value header goes through:
\*   value != "" && isValidPublicIP(value)
accepted(value) == value # Empty /\ isValidPublicIP(value)

\* getClientIP is modelled as a chain, one definition per header consulted:
\* each is the code of getClientIP from that header's check to the end of
\* the function, and gives the string returned (ip) together with the name
\* of the header, or RemoteAddr, whose return statement was taken (via).

\* The last statement: return c.ClientIP()
fromRemoteAddr(c) == [ip |-> ClientIP(c), via |-> "RemoteAddr"]

\* From the check of the Forwarded header (RFC 7239).
fromForwarded(c) ==
    LET forwarded == GetHeader(c, "Forwarded")
        parts     == Split(forwarded, ";")
        forValues == FirstFor(parts)
    IN IF forwarded # Empty /\ forValues # << >>
       THEN [ip |-> forValues[1], via |-> "Forwarded"]
       ELSE fromRemoteAddr(c)

\* The X-Forwarded check left out.
fromXForwarded_Skipped(c) == fromForwarded(c)

\* From the check of the X-Forwarded header.
fromXForwarded(c) ==
    LET xForwarded == GetHeader(c, "X-Forwarded")
    IN IF accepted(xForwarded)
       THEN [ip |-> xForwarded, via |-> "X-Forwarded"]
       ELSE fromForwarded(c)

\* The X-Forwarded-For check with the first-entry fallback tried only
\* after X-Forwarded and Forwarded.
fromXForwardedFor_FallbackLast(c) ==
    LET xForwardedFor == GetHeader(c, "X-Forwarded-For")
        ips           == Split(xForwardedFor, ",")
        publicIPs     == FirstPublic(ips)
        firstIP       == TrimSpace(ips[1])
        later         == fromXForwarded(c)
    IN IF xForwardedFor # Empty /\ publicIPs # << >>
       THEN [ip |-> publicIPs[1], via |-> "X-Forwarded-For"]
       ELSE IF later.via # "RemoteAddr" THEN later
       ELSE IF xForwardedFor # Empty /\ Len(ips) > 0 /\ isValidIP(firstIP)
       THEN [ip |-> firstIP, via |-> "X-Forwarded-For first"]
       ELSE later

\* The X-Forwarded-For check with the fallback taking the first entry that
\* is a valid IP, wherever it stands in the header.
fromXForwardedFor_AnyValidEntry(c) ==
    LET xForwardedFor == GetHeader(c, "X-Forwarded-For")
        ips           == Split(xForwardedFor, ",")
        publicIPs     == FirstPublic(ips)
        validIPs      == FirstPublic_AnyValid(ips)
    IN IF xForwardedFor # Empty /\ publicIPs # << >>
       THEN [ip |-> publicIPs[1], via |-> "X-Forwarded-For"]
       ELSE IF xForwardedFor # Empty /\ validIPs # << >>
       THEN [ip |-> validIPs[1], via |-> "X-Forwarded-For first"]
       ELSE fromXForwarded(c)

\* The X-Forwarded-For check without the first-entry fallback.
fromXForwardedFor_NoFallback(c) ==
    LET xForwardedFor == GetHeader(c, "X-Forwarded-For")
        ips           == Split(xForwardedFor, ",")
        publicIPs     == FirstPublic(ips)
    IN IF xForwardedFor # Empty /\ publicIPs # << >>
       THEN [ip |-> publicIPs[1], via |-> "X-Forwarded-For"]
       ELSE fromXForwarded(c)

\* From the check of the X-Forwarded-For header: the first entry that is a
\* valid public IP, else the first entry when it is a valid IP.
fromXForwardedFor(c) ==
    LET xForwardedFor == GetHeader(c, "X-Forwarded-For")
        ips           == Split(xForwardedFor, ",")
        publicIPs     == FirstPublic(ips)
        firstIP       == TrimSpace(ips[1])
    IN IF xForwardedFor # Empty /\ publicIPs # << >>
       THEN [ip |-> publicIPs[1], via |-> "X-Forwarded-For"]
       ELSE IF xForwardedFor # Empty /\ Len(ips) > 0 /\ isValidIP(firstIP)
       THEN [ip |-> firstIP, via |-> "X-Forwarded-For first"]
       ELSE fromXForwarded(c)

\* The X-Real-IP check giving up on a value that is not an IP: the peer
\* address is returned at once.
fromXRealIP_InvalidAborts(c) ==
    LET xRealIP == GetHeader(c, "X-Real-IP")
    IN IF accepted(xRealIP)
       THEN [ip |-> xRealIP, via |-> "X-Real-IP"]
       ELSE IF xRealIP # Empty /\ ~isValidIP(xRealIP)
       THEN fromRemoteAddr(c)
       ELSE fromXForwardedFor(c)

\* From the check of the X-Real-IP header.
fromXRealIP(c) ==
    LET xRealIP == GetHeader(c, "X-Real-IP")
    IN IF accepted(xRealIP)
       THEN [ip |-> xRealIP, via |-> "X-Real-IP"]
       ELSE fromXForwardedFor(c)

\* X-Real-IP checked before True-Client-IP.
fromTrueClientIP_RealFirst(c) ==
    LET trueClientIP == GetHeader(c, "True-Client-IP")
        xRealIP      == GetHeader(c, "X-Real-IP")
    IN IF accepted(xRealIP)
       THEN [ip |-> xRealIP, via |-> "X-Real-IP"]
       ELSE IF accepted(trueClientIP)
       THEN [ip |-> trueClientIP, via |-> "True-Client-IP"]
       ELSE fromXForwardedFor(c)

\* From the check of the True-Client-IP header. CF-IPCountry is read just
\* before it and changes nothing.
fromTrueClientIP(c) ==
    LET cfIPCountry  == GetHeader(c, "CF-IPCountry")
        trueClientIP == GetHeader(c, "True-Client-IP")
    IN IF accepted(trueClientIP)
       THEN [ip |-> trueClientIP, via |-> "True-Client-IP"]
       ELSE fromXRealIP(c)

\* The CF-Connecting-IP check left out.
fromCFConnectingIP_Skipped(c) == fromTrueClientIP(c)

\* From the check of the CF-Connecting-IP header, the first one.
fromCFConnectingIP(c) ==
    LET cfConnectingIP == GetHeader(c, "CF-Connecting-IP")
    IN IF accepted(cfConnectingIP)
       THEN [ip |-> cfConnectingIP, via |-> "CF-Connecting-IP"]
       ELSE fromTrueClientIP(c)

\* getClientIP(c) with the return statement that produced the value.
getClientIPVia(c) == fromCFConnectingIP(c)

\* getClientIP(c): the client IP address extracted from the request.
getClientIP(c) == getClientIPVia(c).ip

(***************************************************************************)
(* Requests: the header values and peer addresses the model draws          *)
(***************************************************************************)

\* Most entries of an X-Forwarded-For value.
MaxEntries == 3

\* Most headers one request carries.
MaxSet == 2

DigitChar(d) ==
    CASE d = 0 -> "0" [] d = 1 -> "1" [] d = 2 -> "2" [] d = 3 -> "3"
      [] d = 4 -> "4" [] d = 5 -> "5" [] d = 6 -> "6" [] d = 7 -> "7"
      [] d = 8 -> "8" [] d = 9 -> "9"

RECURSIVE Itoa(_)
\* The decimal text of a natural number.
Itoa(n) == IF n < 10 THEN << DigitChar(n) >>
           ELSE Append(Itoa(n \div 10), DigitChar(n % 10))

\* The dotted-decimal text of the IPv4 address a.b.c.d.
FormatV4(a, b, c, d) ==
    Itoa(a) \o << "." >> \o Itoa(b) \o << "." >> \o Itoa(c) \o << "." >> \o Itoa(d)

\* A public address, one per k: 203.0.113.k
PublicOf(k) == FormatV4(203, 0, 113, k)

\* A private address, one per k: 10.0.0.k
PrivateOf(k) == FormatV4(10, 0, 0, k)

\* "169.254.0.1"
LinkLocal4 == FormatV4(169, 254, 0, 1)

\* "unknown": not the text of an IP address.
Unknown == << "u", "n", "k", "n", "o", "w", "n" >>

\* "2001:4860:4860::8888"
PublicV6 == << "2", "0", "0", "1", ":", "4", "8", "6", "0", ":",
               "4", "8", "6", "0", ":", ":", "8", "8", "8", "8" >>

\* "fe80::1"
LinkLocal6 == << "f", "e", "8", "0", ":", ":", "1" >>

\* "::ffff:"
MappedPrefix == << ":", ":", "f", "f", "f", "f", ":" >>

\* "8.8.8.8": the address of the documentation's lookup example.
GoogleDNS == FormatV4(8, 8, 8, 8)

\* "US"
CountryUS == << "U", "S" >>

\* The entries the i-th place of an X-Forwarded-For value is drawn from: a
\* public address (203.0.113.4i), a private one (10.0.0.4i) and a word that
\* is no address.
XFFEntries(i) == { PublicOf(40 + i), PrivateOf(40 + i), Unknown }

RECURSIVE EntryLists(_)
\* The lists of 1..n entries.
EntryLists(n) ==
    IF n = 0 THEN {}
    ELSE IF n = 1 THEN { << e >> : e \in XFFEntries(1) }
    ELSE { Append(l, e) : l \in { x \in EntryLists(n - 1) : Len(x) = n - 1 },
                          e \in XFFEntries(n) }
         \cup EntryLists(n - 1)

RECURSIVE JoinCommaSpace(_)
\* The entries of a list joined by ", ".
JoinCommaSpace(l) ==
    IF Len(l) = 1 THEN l[1]
    ELSE l[1] \o << ",", " " >> \o JoinCommaSpace(Tail(l))

\* The X-Forwarded-For values: "a", "a, b", "a, b, c", ...
XFFValues == { JoinCommaSpace(l) : l \in EntryLists(MaxEntries) }

\* The Forwarded values:
\*   for=203.0.113.6
\*   by=10.0.0.9; for="[2001:4860:4860::8888]"
\*   for=10.0.0.6;proto=https
\*   for=unknown
\*   for="[fe80::1]";for=203.0.113.6
\*   for=10.0.0.1, for=8.8.8.8
ForwardedValues ==
    { ForPrefix \o PublicOf(6),
      << "b", "y", "=" >> \o PrivateOf(9) \o << ";", " " >> \o ForPrefix
         \o << "\"", "[" >> \o PublicV6 \o << "]", "\"" >>,
      ForPrefix \o PrivateOf(6) \o << ";", "p", "r", "o", "t", "o", "=",
                                      "h", "t", "t", "p", "s" >>,
      ForPrefix \o Unknown,
      ForPrefix \o << "\"", "[" >> \o LinkLocal6 \o << "]", "\"", ";" >>
         \o ForPrefix \o PublicOf(6),
      ForPrefix \o PrivateOf(1) \o << ",", " " >> \o ForPrefix \o GoogleDNS }

\* The values a request may carry in the header of the given name.
ValuesFor(name) ==
    CASE name = "CF-Connecting-IP" -> { PublicOf(1), PublicV6, PrivateOf(1), Unknown }
      [] name = "CF-IPCountry" -> { CountryUS }
      [] name = "True-Client-IP" -> { PublicOf(2), LinkLocal4 }
      [] name = "X-Real-IP" -> { PublicOf(3), Unknown }
      [] name = "X-Forwarded-For" -> XFFValues
      [] name = "X-Forwarded" -> { PublicOf(5), LinkLocal6, Unknown }
      [] name = "Forwarded" -> ForwardedValues
      [] name = "Client-IP" -> { PublicOf(7) }
      [] name = "Cluster-Client-IP" -> { PublicOf(8) }
      [] name = "Original-Forwarded-For" -> { PublicOf(9) }

\* A request without headers.
NoHeaders == [n \in HeaderNames |-> Empty]

RECURSIVE HeaderMaps(_, _)
\* The header maps that set at most k of the headers in names.
HeaderMaps(names, k) ==
    IF names = {} \/ k = 0 THEN { NoHeaders }
    ELSE LET n == CHOOSE x \in names : TRUE
             without == HeaderMaps(names \ {n}, k)
             with == { [m EXCEPT ![n] = v] : m \in HeaderMaps(names \ {n}, k - 1),
                                             v \in ValuesFor(n) }
         IN without \cup with

\* "10.244.0.7": the address of a proxy inside the cluster.
ClusterPeer == FormatV4(10, 244, 0, 7)

\* The peer addresses c.ClientIP() reports: a cluster-internal address, and
\* "" for a connection whose remote address has no host that parses as an
\* IP.
PeerAddrs == { ClusterPeer, Empty }

(***************************************************************************)
(* The records of the database readers and the response built from them     *)
(***************************************************************************)

\* A Names map without entries.
NoNames == [l \in {} |-> Empty]

\* names["en"] of a Go map: "" when the map has no such key.
NameEn(names) == IF "en" \in DOMAIN names THEN names["en"] ELSE Empty

\* The zero value of geoip2.City: what City() hands back, with a nil error,
\* for an address the database has no entry for.
ZeroCity ==
    [Country      |-> [Names |-> NoNames, IsoCode |-> Empty],
     City         |-> [Names |-> NoNames],
     Postal       |-> [Code |-> Empty],
     Location     |-> [Latitude |-> 0, Longitude |-> 0, AccuracyRadius |-> 0,
                       TimeZone |-> Empty],
     Subdivisions |-> << >>]

\* The record of the documentation's example, 8.8.8.8; latitude and
\* longitude in ten-thousandths of a degree. It has two subdivisions.
MountainView ==
    [Country      |-> [Names |-> ("de" :> << "U", "S", "A" >> @@ "en" :> << "U", "n", "i", "t", "e", "d", " ", "S", "t", "a", "t", "e", "s" >>),
                       IsoCode |-> << "U", "S" >>],
     City         |-> [Names |-> ("en" :> << "M", "o", "u", "n", "t", "a", "i", "n", " ", "V", "i", "e", "w" >>)],
     Postal       |-> [Code |-> << "9", "4", "0", "4", "3" >>],
     Location     |-> [Latitude |-> 374056, Longitude |-> -1220775,
                       AccuracyRadius |-> 1000,
                       TimeZone |-> << "A", "m", "e", "r", "i", "c", "a", "/", "L", "o", "s", "_", "A", "n", "g", "e", "l", "e", "s" >>],
     Subdivisions |-> << [Names |-> ("en" :> << "C", "a", "l", "i", "f", "o", "r", "n", "i", "a" >>), IsoCode |-> << "C", "A" >>],
                         [Names |-> ("en" :> << "S", "a", "n", "t", "a", " ", "C", "l", "a", "r", "a" >>), IsoCode |-> << "0", "8", "5" >>] >>]

\* A record that names a country only: no subdivision, no city, no postal
\* code, no accuracy radius, and a city Names map without an "en" entry.
CountryOnly ==
    [Country      |-> [Names |-> ("en" :> << "A", "u", "s", "t", "r", "a", "l", "i", "a" >>), IsoCode |-> << "A", "U" >>],
     City         |-> [Names |-> ("ja" :> << "S", "h", "i", "d", "o", "n", "i" >>)],
     Postal       |-> [Code |-> Empty],
     Location     |-> [Latitude |-> -330000, Longitude |-> 1510000,
                       AccuracyRadius |-> 0,
                       TimeZone |-> << "A", "u", "s", "t", "r", "a", "l", "i", "a", "/", "S", "y", "d", "n", "e", "y" >>],
     Subdivisions |-> << >>]

\* The zero value of geoip2.ASN.
ZeroASN == [AutonomousSystemNumber |-> 0, AutonomousSystemOrganization |-> Empty]

\* The ASN record of the documentation's example.
GoogleASN == [AutonomousSystemNumber |-> 15169,
              AutonomousSystemOrganization |-> << "G", "o", "o", "g", "l", "e", " ", "L", "L", "C" >>]

\* "8.8.8.0/24"
GoogleNet == << "8", ".", "8", ".", "8", ".", "0", "/", "2", "4" >>

\* What a query of a reader gives: City() and ASN() give a record and an
\* error; LookupNetwork() gives a network ("" for nil), ok and an error. A
\* query of an address without entry gives the zero record (ok = false) and
\* no error; a query that fails gives an error.
CityFound(rec) == [rec |-> rec, err |-> FALSE]
CityNoEntry    == [rec |-> ZeroCity, err |-> FALSE]
CityFailed     == [rec |-> ZeroCity, err |-> TRUE]
ASNFound(rec)  == [rec |-> rec, err |-> FALSE]
ASNNoEntry     == [rec |-> ZeroASN, err |-> FALSE]
ASNFailed      == [rec |-> ZeroASN, err |-> TRUE]
NetFound(n)    == [network |-> n, ok |-> TRUE, err |-> FALSE]
NetNoEntry(n)  == [network |-> n, ok |-> FALSE, err |-> FALSE]
NetFailed      == [network |-> Empty, ok |-> FALSE, err |-> TRUE]

\* The zero value of GeoIPResponse.
ZeroResponse ==
    [IP |-> Empty, Country |-> Empty, CountryCode |-> Empty, Region |-> Empty,
     RegionCode |-> Empty, City |-> Empty, PostalCode |-> Empty,
     Latitude |-> 0, Longitude |-> 0, AccuracyRadius |-> 0, TimeZone |-> Empty,
     ASN |-> 0, ASNOrg |-> Empty, ASNNetwork |-> Empty]

\* The region taken from the second subdivision instead of the first.
RegionOf_Last(cityRecord) ==
    IF Len(cityRecord.Subdivisions) > 0
    THEN [Region     |-> NameEn(cityRecord.Subdivisions[Len(cityRecord.Subdivisions)].Names),
          RegionCode |-> cityRecord.Subdivisions[Len(cityRecord.Subdivisions)].IsoCode]
    ELSE [Region |-> Empty, RegionCode |-> Empty]

\* The region fields of NewGeoIPResponse: those of Subdivisions[0] if there
\* is one.
RegionOf(cityRecord) ==
    IF Len(cityRecord.Subdivisions) > 0
    THEN [Region     |-> NameEn(cityRecord.Subdivisions[1].Names),
          RegionCode |-> cityRecord.Subdivisions[1].IsoCode]
    ELSE [Region |-> Empty, RegionCode |-> Empty]

\* NewGeoIPResponse(ipStr, cityRecord)
NewGeoIPResponse(ipStr, cityRecord) ==
    [ZeroResponse EXCEPT
       !.IP             = ipStr,
       !.Country        = NameEn(cityRecord.Country.Names),
       !.CountryCode    = cityRecord.Country.IsoCode,
       !.City           = NameEn(cityRecord.City.Names),
       !.PostalCode     = cityRecord.Postal.Code,
       !.Latitude       = cityRecord.Location.Latitude,
       !.Longitude      = cityRecord.Location.Longitude,
       !.AccuracyRadius = cityRecord.Location.AccuracyRadius,
       !.TimeZone       = cityRecord.Location.TimeZone,
       !.Region         = RegionOf(cityRecord).Region,
       !.RegionCode     = RegionOf(cityRecord).RegionCode]

\* A map without keys.
NoFields == [k \in {} |-> Empty]

\* A reader handle: nil or not; unusable when every query of it fails (a
\* database that has been closed, a file of another database type); and
\* for the addresses its database has something to say about (entries) what
\* a query gives; any other address has no entry.
Reader(entries) == [nil |-> FALSE, unusable |-> FALSE, entries |-> entries]

\* A nil *maxminddb.Reader.
NilReader == [nil |-> TRUE, unusable |-> TRUE, entries |-> NoFields]

\* reader.City(ip)
City(reader, ip) ==
    IF reader.unusable THEN CityFailed
    ELSE IF ip \in DOMAIN reader.entries THEN reader.entries[ip]
    ELSE CityNoEntry

\* reader.ASN(ip)
ASN(reader, ip) ==
    IF reader.unusable THEN ASNFailed
    ELSE IF ip \in DOMAIN reader.entries THEN reader.entries[ip]
    ELSE ASNNoEntry

\* reader.LookupNetwork(ip, &asnData)
LookupNetwork(reader, ip) ==
    IF reader.unusable THEN NetFailed
    ELSE IF ip \in DOMAIN reader.entries THEN reader.entries[ip]
    ELSE NetNoEntry(Empty)

\* The network attached whatever ok says.
WithNetwork_IgnoresOk(response, net) ==
    IF ~net.err /\ net.network # Empty
    THEN [response EXCEPT !.ASNNetwork = net.network]
    ELSE response

\* The inner if of AddASNInformation:
\*   err == nil && ok && network != nil
WithNetwork(response, net) ==
    IF ~net.err /\ net.ok /\ net.network # Empty
    THEN [response EXCEPT !.ASNNetwork = net.network]
    ELSE response

\* The body of AddASNInformation on the outcome asn of the ASN query and,
\* unless asnRawDB is nil, the outcome net of the network query.
WithASN(response, asn, rawNil, net) ==
    IF asn.err THEN response
    ELSE IF rawNil
    THEN [response EXCEPT !.ASN    = asn.rec.AutonomousSystemNumber,
                          !.ASNOrg = asn.rec.AutonomousSystemOrganization]
    ELSE WithNetwork([response EXCEPT
                        !.ASN    = asn.rec.AutonomousSystemNumber,
                        !.ASNOrg = asn.rec.AutonomousSystemOrganization], net)

\* AddASNInformation(&response, ip, ipStr, asnDB, asnRawDB): the response
\* it leaves.
AddASNInformation(response, ip, asnDB, asnRawDB) ==
    WithASN(response, ASN(asnDB, ip), asnRawDB.nil,
            IF asnRawDB.nil THEN NetFailed ELSE LookupNetwork(asnRawDB, ip))

\* The reader queries AddASNInformation makes, in order.
ASNQueries(ip, asnDB, asnRawDB) ==
    IF ~ASN(asnDB, ip).err /\ ~asnRawDB.nil
    THEN << "ASN", "LookupNetwork" >> ELSE << "ASN" >>

\* c.JSON(code, response): the members of the JSON object written for a
\* GeoIPResponse; a field tagged omitempty is left out when it is zero or
\* empty.
JSON(r) ==
    [ip |-> r.IP, country |-> r.Country, country_code |-> r.CountryCode,
     region |-> r.Region, region_code |-> r.RegionCode, city |-> r.City,
     postal_code |-> r.PostalCode, latitude |-> r.Latitude,
     longitude |-> r.Longitude, timezone |-> r.TimeZone]
    @@ (IF r.AccuracyRadius # 0 THEN [accuracy_radius |-> r.AccuracyRadius] ELSE NoFields)
    @@ (IF r.ASN # 0 THEN [asn |-> r.ASN] ELSE NoFields)
    @@ (IF r.ASNOrg # Empty THEN [asn_org |-> r.ASNOrg] ELSE NoFields)
    @@ (IF r.ASNNetwork # Empty THEN [asn_network |-> r.ASNNetwork] ELSE NoFields)

\* gin.H{"error": message}
ErrorBody(message) == [error |-> message]

\* c.Header(key, value) on the response headers h: an empty value removes
\* the header.
Header(h, key, value) ==
    IF value = Empty THEN [k \in DOMAIN h \ {key} |-> h[k]]
    ELSE [k \in DOMAIN h \cup {key} |-> IF k = key THEN value ELSE h[k]]

(***************************************************************************)
(* The services NewGeoIPService can return and the requests of the routes   *)
(***************************************************************************)

\* Most requests in flight at once.
MaxRequests == 2

\* "203.0.113.0/24"
TestNet3 == FormatV4(203, 0, 113, 0) \o << "/", "2", "4" >>

\* What the three readers give for one address: the City query, the ASN
\* query, the network query.
EntryFull    == << CityFound(MountainView), ASNFound(GoogleASN), NetFound(GoogleNet) >>
EntryNoNet   == << CityFound(CountryOnly), ASNFound(GoogleASN), NetNoEntry(TestNet3) >>
EntryAbsent  == << CityNoEntry, ASNNoEntry, NetNoEntry(Empty) >>
EntryNoCity  == << CityFailed, ASNFound(GoogleASN), NetFound(GoogleNet) >>
EntryNetFail == << CityFound(MountainView), ASNFound(GoogleASN), NetFailed >>

\* The service whose databases give e1 for 8.8.8.8, e2 for 203.0.113.1 and
\* have no entry for any other address. All three handles are set: a
\* service is returned only when the three files were opened.
ServiceOf(e1, e2) ==
    LET a1 == ParseIP(GoogleDNS)
        a2 == ParseIP(PublicOf(1))
    IN [cityDB   |-> Reader(a1 :> e1[1] @@ a2 :> e2[1]),
        asnDB    |-> Reader(a1 :> e1[2] @@ a2 :> e2[2]),
        asnRawDB |-> Reader(a1 :> e1[3] @@ a2 :> e2[3])]

\* The service whose City file is no usable City database.
WithoutCity(s) == [s EXCEPT !.cityDB.unusable = TRUE]

\* The service whose ASN file, opened twice, is no usable ASN database.
WithoutASN(s) == [s EXCEPT !.asnDB.unusable = TRUE, !.asnRawDB.unusable = TRUE]

\* The services the server may run with.
Services ==
    { ServiceOf(EntryFull, EntryAbsent), ServiceOf(EntryNoNet, EntryNetFail),
      ServiceOf(EntryNoCity, EntryFull),
      WithoutCity(ServiceOf(EntryFull, EntryFull)),
      WithoutASN(ServiceOf(EntryFull, EntryFull)) }

\* A request context: the request headers, the peer address c.ClientIP()
\* reports and the value of the path parameter "ip".
Context(hdr, peer, param) == [hdr |-> hdr, peer |-> peer, param |-> param]

\* c.Param("ip")
Param(c, key) == c.param

\* The path parameters of GET /:ip: 8.8.8.8, the same address written
\* ::ffff:8.8.8.8, 203.0.113.1, and a word that is no address. The router
\* matches /:ip only on a parameter that is not empty.
LookupParams == { GoogleDNS, MappedPrefix \o GoogleDNS, PublicOf(1), Unknown }

\* The requests of GET /myip and of the Whois handler: one with the
\* Cloudflare header from a peer whose address is not an IP, one straight
\* from a cluster address, one without headers from a peer whose address is
\* not an IP.
ClientContexts ==
    { Context([NoHeaders EXCEPT !["CF-Connecting-IP"] = GoogleDNS], Empty, Empty),
      Context(NoHeaders, ClusterPeer, Empty),
      Context(NoHeaders, Empty, Empty) }

\* The requests: the handler the router picks and the context it is given.
Requests ==
    { [handler |-> "LookupIP", c |-> Context(NoHeaders, ClusterPeer, p)] :
         p \in LookupParams }
    \cup { [handler |-> "GetClientIP", c |-> x] : x \in ClientContexts }
    \cup { [handler |-> "Whois", c |-> x] : x \in ClientContexts }

\* A handler that is not running: its locals (ipStr or clientIP, ip,
\* response), the reader queries it has made, and the status code, JSON body
\* and headers it has written.
IdleHandler ==
    [pc |-> "idle", handler |-> "none", c |-> Context(NoHeaders, Empty, Empty),
     ipStr |-> Empty, via |-> "none", ip |-> NilIP, response |-> ZeroResponse,
     queries |-> << >>, code |-> 0, body |-> NoFields, header |-> NoFields]

(***************************************************************************)
(* func main: NewGeoIPService, the HTTP server, the shutdown, Close         *)
(***************************************************************************)

\* Most requests in flight at once while main runs.
MaxInFlight == 2

\* The readers of the service in the order of its fields.
ReaderOrder == << "cityDB", "asnDB", "asnRawDB" >>

ReaderNames == { "cityDB", "asnDB", "asnRawDB" }

\* What may happen to each reader: [reader name -> BOOLEAN].
Outcomes == [ReaderNames -> BOOLEAN]

\* func main at its first statement. files[n]: the Open of reader n will
\* succeed; closeErr[n]: the Close of reader n will return an error.
\* handles: the fields of the service that are not nil; open: the readers
\* open now; calls: the Open and Close calls made so far; service: what
\* NewGeoIPService returned; closeReturned: what GeoIPService.Close returned.
StartOfMain(files, closeErr) ==
    [pc |-> "start", files |-> files, closeErr |-> closeErr,
     handles |-> {}, open |-> {}, calls |-> << >>, service |-> "none",
     accepting |-> FALSE, inflight |-> 0, signalled |-> FALSE,
     closeReturned |-> "none", exit |-> "none"]

\* geoip2.Open or maxminddb.Open has succeeded for reader n.
Opened(m, n) ==
    [m EXCEPT !.calls = Append(@, << "Open", n >>), !.open = @ \cup {n}]

\* The Close method of reader n has been called.
Closed(m, n) ==
    [m EXCEPT !.calls = Append(@, << "Close", n >>), !.open = @ \ {n}]

\* The Open of reader n has failed: return nil, fmt.Errorf(...)
OpenFailed(m, n) ==
    [m EXCEPT !.calls = Append(@, << "Open", n >>),
              !.service = "nil", !.pc = "returned"]

\* NewGeoIPService: cityDB, err := geoip2.Open(dataDir + "/GeoLite2-City.mmdb")
OpenCityDB(m) ==
    IF m.files["cityDB"]
    THEN [Opened(m, "cityDB") EXCEPT !.pc = "openASN"]
    ELSE OpenFailed(m, "cityDB")

\* NewGeoIPService: asnDB, err := geoip2.Open(dataDir + "/GeoLite2-ASN.mmdb")
OpenASNDB(m) ==
    IF m.files["asnDB"]
    THEN [Opened(m, "asnDB") EXCEPT !.pc = "openRaw"]
    ELSE Closed(OpenFailed(m, "asnDB"), "cityDB")

\* The last open of NewGeoIPService cleaning up the City reader only.
OpenASNRawDB_LeaksASN(m) ==
    IF m.files["asnRawDB"]
    THEN [Opened(m, "asnRawDB") EXCEPT
            !.pc = "returned", !.service = "service", !.handles = ReaderNames]
    ELSE Closed(OpenFailed(m, "asnRawDB"), "cityDB")

\* NewGeoIPService: asnRawDB, err := maxminddb.Open(dataDir + "/GeoLite2-ASN.mmdb")
\* and the return of the service.
OpenASNRawDB(m) ==
    IF m.files["asnRawDB"]
    THEN [Opened(m, "asnRawDB") EXCEPT
            !.pc = "returned", !.service = "service", !.handles = ReaderNames]
    ELSE Closed(Closed(OpenFailed(m, "asnRawDB"), "cityDB"), "asnDB")

\* Close returning as soon as one reader's Close gives an error.
Close_ReturnsAtFirstError(m) ==
    LET err1 == "cityDB" \in m.handles /\ m.closeErr["cityDB"]
        err2 == "asnDB" \in m.handles /\ m.closeErr["asnDB"]
        err3 == "asnRawDB" \in m.handles /\ m.closeErr["asnRawDB"]
        m1   == IF "cityDB" \in m.handles THEN Closed(m, "cityDB") ELSE m
        m2   == IF "asnDB" \in m.handles THEN Closed(m1, "asnDB") ELSE m1
        m3   == IF "asnRawDB" \in m.handles THEN Closed(m2, "asnRawDB") ELSE m2
    IN IF err1 THEN [m1 EXCEPT !.closeReturned = "err1"]
       ELSE IF err2 THEN [m2 EXCEPT !.closeReturned = "err2"]
       ELSE IF err3 THEN [m3 EXCEPT !.closeReturned = "err3"]
       ELSE [m3 EXCEPT !.closeReturned = "nil"]

\* GeoIPService.Close: the Close of every reader that is not nil, then the
\* first of err1, err2, err3 that is not nil.
Close(m) ==
    LET err1 == "cityDB" \in m.handles /\ m.closeErr["cityDB"]
        err2 == "asnDB" \in m.handles /\ m.closeErr["asnDB"]
        err3 == "asnRawDB" \in m.handles /\ m.closeErr["asnRawDB"]
        m1   == IF "cityDB" \in m.handles THEN Closed(m, "cityDB") ELSE m
        m2   == IF "asnDB" \in m.handles THEN Closed(m1, "asnDB") ELSE m1
        m3   == IF "asnRawDB" \in m.handles THEN Closed(m2, "asnRawDB") ELSE m2
    IN [m3 EXCEPT !.closeReturned =
                     IF err1 THEN "err1" ELSE IF err2 THEN "err2"
                     ELSE IF err3 THEN "err3" ELSE "nil"]

\* main between srv.ListenAndServe() and the signal: every reader open,
\* requests accepted.
Serving ==
    [OpenASNRawDB(OpenASNDB(OpenCityDB(
        StartOfMain([n \in ReaderNames |-> TRUE], [n \in ReaderNames |-> FALSE]))))
     EXCEPT !.pc = "serving", !.accepting = TRUE]

(***************************************************************************)
(* scripts/geoip-manager.sh in daemon mode                                  *)
(***************************************************************************)

\* The values of UPDATE_INTERVAL: "24h" (the default), "30m", "30s,5m,3h"
\* (the example of the documentation), "1h," and "30s,,5m".
UpdateIntervals ==
    { << "2", "4", "h" >>,
      << "3", "0", "m" >>,
      << "3", "0", "s", ",", "5", "m", ",", "3", "h" >>,
      << "1", "h", "," >>,
      << "3", "0", "s", ",", ",", "5", "m" >> }

\* IFS=',' read -ra INTERVALS <<< "${UPDATE_INTERVAL}": the fields between
\* the commas; a comma at the end of the line ends the last field and
\* starts no new one.
ReadArray(line) ==
    LET fields == Split(line, ",")
    IN IF Len(fields) > 1 /\ fields[Len(fields)] = Empty
       THEN SubSeq(fields, 1, Len(fields) - 1)
       ELSE fields

\* sleep accepts its argument: a decimal number with an optional suffix s,
\* m, h or d.
SleepAccepts(interval) ==
    LET number == TrimRight(interval, { "s", "m", "h", "d" })
    IN /\ number # Empty
       /\ Len(interval) - Len(number) <= 1
       /\ \A k \in 1..Len(number) :
             number[k] \in { "0", "1", "2", "3", "4", "5", "6", "7", "8", "9" }

\* The exit status of update_with_geoipupdate: that of its last command,
\* geoipupdate.
update_with_geoipupdate(failed) == IF failed THEN 1 ELSE 0

\* The exit status of download_direct called on the left of ||: set -e is
\* off inside it, every command runs whether or not curl or tar before it
\* failed, and the status is that of its last command, rm -rf, which is 0.
download_direct(failed) == 0

\* The script at the start of daemon mode. tool: command -v geoipupdate
\* finds the program. k: the place of the for loop in INTERVALS; failed:
\* the update of this round failed; out: the lines the script has echoed in
\* this round; slept: the intervals slept in this pass over INTERVALS;
\* status: the exit status once the script has ended.
StartOfDaemon(value, tool) ==
    [pc |-> "start", UPDATE_INTERVAL |-> value, tool |-> tool,
     INTERVALS |-> << >>, k |-> 1, failed |-> FALSE, out |-> << >>,
     slept |-> << >>, status |-> "none"]

\* geoip-manager.sh has not been started.
NotRunning == [pc |-> "none"]

(***************************************************************************)
(* The server handling requests one after the other                        *)
(***************************************************************************)

VARIABLES
    pc,        \* "idle", "received" (request at the handler), "resolved"
    c,         \* the request: hdr (header name -> value), peer
    clientIP,  \* the string getClientIP returned
    via,       \* the return statement of getClientIP that produced it
    addr,      \* the string handed to the classification helpers
    verdict,   \* what isValidIP, isPrivateIP and isValidPublicIP said of it
    g,         \* the GeoIPService: cityDB, asnDB, asnRawDB
    reqs,      \* the handlers running, one per request in flight
    main,      \* func main: where it is, the readers open, the server
    daemon     \* geoip-manager.sh: where it is, its INTERVALS, its output

vars == << pc, c, clientIP, via, addr, verdict, g, reqs, main, daemon >>

NoRequest == [hdr |-> NoHeaders, peer |-> Empty]

\* No address classified yet.
NoVerdict == [done |-> FALSE, valid |-> FALSE, private |-> FALSE, public |-> FALSE]

Init ==
    /\ pc = "idle"
    /\ c = NoRequest
    /\ clientIP = Empty
    /\ via = "none"
    /\ addr = Empty
    /\ verdict = NoVerdict
    /\ g = ServiceOf(EntryFull, EntryAbsent)
    /\ reqs = [i \in 1..MaxRequests |-> IdleHandler]
    /\ main = Serving
    /\ daemon = NotRunning

\* A request arrives at a handler that resolves the client address.
Receive ==
    /\ pc = "idle"
    /\ \E h \in HeaderMaps(HeaderNames, MaxSet), p \in PeerAddrs :
          c' = [hdr |-> h, peer |-> p]
    /\ pc' = "received"
    /\ UNCHANGED << clientIP, via, addr, verdict, g, reqs, main, daemon >>

\* A resolver that takes the header it used off the request.
CallGetClientIP_ConsumesHeader ==
    /\ pc = "received"
    /\ LET r == getClientIPVia(c)
       IN /\ clientIP' = r.ip
          /\ via' = r.via
          /\ c' = IF r.via \in { "CF-Connecting-IP", "True-Client-IP", "X-Real-IP",
                                 "X-Forwarded", "Forwarded" }
                  THEN [c EXCEPT !.hdr[r.via] = Empty]
                  ELSE [c EXCEPT !.hdr["X-Forwarded-For"] = Empty]
    /\ pc' = "resolved"
    /\ UNCHANGED << addr, verdict, g, reqs, main, daemon >>

\* clientIP := getClientIP(c)
CallGetClientIP ==
    /\ pc = "received"
    /\ LET r == getClientIPVia(c)
       IN /\ clientIP' = r.ip
          /\ via' = r.via
    /\ pc' = "resolved"
    /\ UNCHANGED << c, addr, verdict, g, reqs, main, daemon >>

\* The handler is done with the request.
Done ==
    /\ pc = "resolved"
    /\ pc' = "idle"
    /\ c' = NoRequest
    /\ clientIP' = Empty
    /\ via' = "none"
    /\ UNCHANGED << addr, verdict, g, reqs, main, daemon >>

Next == Receive \/ CallGetClientIP \/ Done

Spec == Init /\ [][Next]_vars

(***************************************************************************)
(* The classification helpers applied to sample addresses                  *)
(***************************************************************************)

\* First and second bytes around the borders of the IPv4 ranges.
SampleFirst == { 8, 9, 10, 11, 126, 127, 128, 168, 169, 170, 171, 172, 173,
                 191, 192, 193 }

SampleSecond == { 0, 15, 16, 17, 31, 32, 167, 168, 169, 253, 254, 255 }

\* First groups around the borders of the IPv6 ranges, as text.
SampleGroups ==
    { << "f", "b", "f", "f" >>, << "f", "c", "0", "0" >>, << "f", "c", "f", "f" >>,
      << "F", "D", "0", "0" >>, << "f", "d", "f", "f" >>, << "f", "e", "0", "0" >>,
      << "f", "e", "7", "f" >>, << "f", "e", "8", "0" >>, << "f", "e", "8", "1" >>,
      << "f", "e", "b", "f" >>, << "f", "e", "c", "0" >>, << "f", "e", "f", "f" >>,
      << "f", "f", "0", "2" >>, << "2", "0", "0", "1" >>, << "1" >>, << "0" >> }

\* "::1"
Loopback6 == << ":", ":", "1" >>

\* The strings classified: IPv4 and IPv6 addresses on both sides of every
\* range border, the addresses the documentation names, IPv4-mapped IPv6
\* addresses, and strings that are not addresses.
SampleAddrs ==
    { FormatV4(a, b, 0, 1) : a \in SampleFirst, b \in SampleSecond }
    \cup { grp \o Loopback6 : grp \in SampleGroups }
    \cup { grp \o << ":", ":" >> : grp \in SampleGroups }
    \cup { FormatV4(8, 8, 8, 8), FormatV4(127, 0, 0, 1), LinkLocal4,
           PublicV6, LinkLocal6, Loopback6,
           << ":", ":", "2" >>, << ":", ":" >>,
           MappedPrefix \o PrivateOf(1), MappedPrefix \o FormatV4(8, 8, 8, 8),
           Unknown, Empty, FormatV4(256, 256, 256, 256),
           << "0" >> \o PrivateOf(1), << "1", "0", ".", "0", ".", "0" >>,
           LinkLocal6 \o << "%", "e", "t", "h", "0" >> }

InitClassify ==
    /\ pc = "idle"
    /\ c = NoRequest
    /\ clientIP = Empty
    /\ via = "none"
    /\ addr \in SampleAddrs
    /\ verdict = NoVerdict
    /\ g = ServiceOf(EntryFull, EntryAbsent)
    /\ reqs = [i \in 1..MaxRequests |-> IdleHandler]
    /\ main = Serving
    /\ daemon = NotRunning

\* isValidIP(addr), isPrivateIP(addr) and isValidPublicIP(addr) are called.
Classify ==
    /\ ~verdict.done
    /\ verdict' = [done |-> TRUE,
                   valid |-> isValidIP(addr),
                   private |-> isPrivateIP(addr),
                   public |-> isValidPublicIP(addr)]
    /\ UNCHANGED << pc, c, clientIP, via, addr, g, reqs, main, daemon >>

NextClassify == Classify

SpecClassify == InitClassify /\ [][NextClassify]_vars

TypeOK ==
    /\ pc \in {"idle", "received", "resolved"}
    /\ DOMAIN c.hdr = HeaderNames
    /\ verdict.done \in BOOLEAN

(***************************************************************************)
(* The server handling requests concurrently: LookupIP, GetClientIP, Whois *)
(***************************************************************************)

\* c.JSON(code, body), or c.Status(code) with no body: the handler returns.
Answered(r, code, body) == [r EXCEPT !.pc = "done", !.code = code, !.body = body]

\* The handler has parsed ipStr into ip and queried the City reader.
Queried(r, ipStr, via_, ip) ==
    [r EXCEPT !.ipStr = ipStr, !.via = via_, !.ip = ip,
              !.queries = Append(@, "City")]

\* The City query followed by NewGeoIPResponse whether or not the query
\* returned an error.
Located_ErrorIgnored(r, ipStr, via_, ip, city, message) ==
    [Queried(r, ipStr, via_, ip) EXCEPT
       !.pc = "located",
       !.response = NewGeoIPResponse(ipStr, city.rec)]

\* The City query of LookupIP and GetClientIP and what follows it up to the
\* call of NewGeoIPResponse: an error of the query ends the request with
\* 500 and the message given.
Located(r, ipStr, via_, ip, city, message) ==
    IF city.err
    THEN Answered(Queried(r, ipStr, via_, ip), 500, ErrorBody(message))
    ELSE [Queried(r, ipStr, via_, ip) EXCEPT
            !.pc = "located",
            !.response = NewGeoIPResponse(ipStr, city.rec)]

\* LookupIP without the check of what net.ParseIP gave.
LookupIPLocated_NoSyntaxCheck(r, ipStr, ip, cityDB) ==
    IF ipStr = Empty
    THEN Answered([r EXCEPT !.ipStr = ipStr], 400, ErrorBody("IP address is required"))
    ELSE Located(r, ipStr, "param", ip, City(cityDB, ip), "Failed to lookup IP address")

\* LookupIP from its first line to the call of NewGeoIPResponse.
LookupIPLocated(r, ipStr, ip, cityDB) ==
    IF ipStr = Empty
    THEN Answered([r EXCEPT !.ipStr = ipStr], 400, ErrorBody("IP address is required"))
    ELSE IF ip = NilIP
    THEN Answered([r EXCEPT !.ipStr = ipStr], 400, ErrorBody("Invalid IP address format"))
    ELSE Located(r, ipStr, "param", ip, City(cityDB, ip), "Failed to lookup IP address")

\* GetClientIP that parses the peer address, not the resolver's result, to
\* decide whether the client IP could be determined.
GetClientIPLocated_PeerParsed(r, res, ip, cityDB) ==
    IF ParseIP(r.c.peer) = NilIP
    THEN Answered([r EXCEPT !.ipStr = res.ip, !.via = res.via], 400,
                  ErrorBody("Unable to determine client IP"))
    ELSE Located(r, res.ip, res.via, ip, City(cityDB, ip),
                 "Failed to lookup client IP address")

\* GetClientIP from net.ParseIP(clientIP) to the call of NewGeoIPResponse,
\* res being what getClientIP(c) gave.
GetClientIPLocated(r, res, ip, cityDB) ==
    IF ip = NilIP
    THEN Answered([r EXCEPT !.ipStr = res.ip, !.via = res.via], 400,
                  ErrorBody("Unable to determine client IP"))
    ELSE Located(r, res.ip, res.via, ip, City(cityDB, ip),
                 "Failed to lookup client IP address")

\* AddASNInformation and c.JSON(http.StatusOK, response), the end of
\* LookupIP and of GetClientIP.
Responded(r, response, asked) ==
    Answered([r EXCEPT !.response = response, !.queries = @ \o asked],
             200, JSON(response))

\* The headers Whois sets from the city record.
CityHeaders(h, rec) ==
    LET h5 == Header(Header(Header(Header(Header(h,
                 "X-GeoIP-Country", rec.Country.IsoCode),
                 "X-GeoIP-Country-Name", NameEn(rec.Country.Names)),
                 "X-GeoIP-City", NameEn(rec.City.Names)),
                 "X-GeoIP-Postal", rec.Postal.Code),
                 "X-GeoIP-Timezone", rec.Location.TimeZone)
    IN IF Len(rec.Subdivisions) > 0
       THEN Header(Header(h5,
                 "X-GeoIP-Region", NameEn(rec.Subdivisions[1].Names)),
                 "X-GeoIP-Region-Code", rec.Subdivisions[1].IsoCode)
       ELSE h5

\* Whois from the check of ip to the end of the City block, res being what
\* getClientIP(c) gave and city what the City query gives for ip.
WhoisLocated(r, res, ip, city) ==
    IF ip = NilIP
    THEN [r EXCEPT !.pc = "located", !.ipStr = res.ip, !.via = res.via]
    ELSE [Queried(r, res.ip, res.via, ip) EXCEPT
            !.pc = "located",
            !.header = IF city.err THEN @ ELSE CityHeaders(@, city.rec)]

\* Whois from its first line to the end of the City block.
WhoisResolved(r, res, ip, cityDB) == WhoisLocated(r, res, ip, City(cityDB, ip))

\* GetClientIP from its first line to the call of NewGeoIPResponse.
GetClientIPResolved(r, res, cityDB) == GetClientIPLocated(r, res, ParseIP(res.ip), cityDB)

\* Whois from its first line to the end of the City block.
WhoisFrom(r, res, cityDB) == WhoisResolved(r, res, ParseIP(res.ip), cityDB)

\* The headers Whois sets from the ASN record.
ASNHeaders(h, rec) ==
    Header(Header(h, "X-GeoIP-ASN", Itoa(rec.AutonomousSystemNumber)),
           "X-GeoIP-Organization", rec.AutonomousSystemOrganization)

\* Whois with the ASN block inside the block of the City query: no ASN
\* headers when the City query failed.
WhoisResponded_ASNNeedsCity(r, asn) ==
    LET h == IF r.ip # NilIP /\ ~asn.err /\ "X-GeoIP-Country" \in DOMAIN r.header
             THEN ASNHeaders(r.header, asn.rec)
             ELSE r.header
    IN Answered([r EXCEPT !.queries = IF r.ip # NilIP THEN Append(@, "ASN") ELSE @,
                          !.header  = Header(h, "X-Client-IP", r.ipStr)],
                204, NoFields)

\* Whois from the ASN block to its last line.
WhoisResponded(r, asn) ==
    LET h == IF r.ip # NilIP /\ ~asn.err THEN ASNHeaders(r.header, asn.rec)
             ELSE r.header
    IN Answered([r EXCEPT !.queries = IF r.ip # NilIP THEN Append(@, "ASN") ELSE @,
                          !.header  = Header(h, "X-Client-IP", r.ipStr)],
                204, NoFields)

\* The router hands a request to its handler; the handler takes the first
\* free place.
Arrive(i) ==
    /\ reqs[i].pc = "idle"
    /\ \A j \in 1..(i - 1) : reqs[j].pc # "idle"
    /\ \E rq \in Requests :
          reqs' = [reqs EXCEPT ![i] = [IdleHandler EXCEPT !.pc = "start",
                                                          !.handler = rq.handler,
                                                          !.c = rq.c]]
    /\ UNCHANGED << pc, c, clientIP, via, addr, verdict, g, main, daemon >>

\* LookupIP with a failed City query treated as fatal to the process: every
\* handler in flight ends there, without response.
LookupIP_Locate_Fatal(i) ==
    /\ reqs[i].pc = "start"
    /\ reqs[i].handler = "LookupIP"
    /\ LET r == LookupIPLocated(reqs[i], Param(reqs[i].c, "ip"),
                                ParseIP(Param(reqs[i].c, "ip")), g.cityDB)
       IN reqs' = IF r.code = 500
                  THEN [j \in 1..MaxRequests |->
                          IF reqs[j].pc = "idle" THEN reqs[j]
                          ELSE [reqs[j] EXCEPT !.pc = "done", !.code = 0]]
                  ELSE [reqs EXCEPT ![i] = r]
    /\ UNCHANGED << pc, c, clientIP, via, addr, verdict, g, main, daemon >>

\* LookupIP: parameter, net.ParseIP, g.cityDB.City(ip), NewGeoIPResponse.
LookupIP_Locate(i) ==
    /\ reqs[i].pc = "start"
    /\ reqs[i].handler = "LookupIP"
    /\ reqs' = [reqs EXCEPT ![i] =
                  LookupIPLocated(@, Param(reqs[i].c, "ip"),
                                  ParseIP(Param(reqs[i].c, "ip")), g.cityDB)]
    /\ UNCHANGED << pc, c, clientIP, via, addr, verdict, g, main, daemon >>

\* GetClientIP with ip and response kept in variables of the package, not
\* of the call: what it stores is seen by every handler between its City
\* query and its ASN query.
GetClientIP_Locate_SharedLocals(i) ==
    /\ reqs[i].pc = "start"
    /\ reqs[i].handler = "GetClientIP"
    /\ LET r == GetClientIPResolved(reqs[i], getClientIPVia(reqs[i].c), g.cityDB)
       IN reqs' = [j \in 1..MaxRequests |->
                     IF j = i THEN r
                     ELSE IF r.pc = "located" /\ reqs[j].pc = "located"
                                              /\ reqs[j].handler # "Whois"
                     THEN [reqs[j] EXCEPT !.ip = r.ip, !.response = r.response]
                     ELSE reqs[j]]
    /\ UNCHANGED << pc, c, clientIP, via, addr, verdict, g, main, daemon >>

\* GetClientIP: getClientIP(c), net.ParseIP, g.cityDB.City(ip),
\* NewGeoIPResponse.
GetClientIP_Locate(i) ==
    /\ reqs[i].pc = "start"
    /\ reqs[i].handler = "GetClientIP"
    /\ reqs' = [reqs EXCEPT ![i] =
                  GetClientIPResolved(@, getClientIPVia(reqs[i].c), g.cityDB)]
    /\ UNCHANGED << pc, c, clientIP, via, addr, verdict, g, main, daemon >>

\* An ASN query that fails ends the request with 500.
AddASN_Respond_FatalASN(i) ==
    /\ reqs[i].pc = "located"
    /\ reqs[i].handler \in { "LookupIP", "GetClientIP" }
    /\ reqs' = [reqs EXCEPT ![i] =
                  IF ASN(g.asnDB, reqs[i].ip).err
                  THEN Answered([@ EXCEPT !.queries = Append(@, "ASN")], 500,
                                ErrorBody("Failed to lookup ASN"))
                  ELSE Responded(@, AddASNInformation(reqs[i].response, reqs[i].ip,
                                                      g.asnDB, g.asnRawDB),
                                 ASNQueries(reqs[i].ip, g.asnDB, g.asnRawDB))]
    /\ UNCHANGED << pc, c, clientIP, via, addr, verdict, g, main, daemon >>

\* LookupIP and GetClientIP: AddASNInformation, c.JSON(http.StatusOK, ...).
AddASN_Respond(i) ==
    /\ reqs[i].pc = "located"
    /\ reqs[i].handler \in { "LookupIP", "GetClientIP" }
    /\ reqs' = [reqs EXCEPT ![i] =
                  Responded(@, AddASNInformation(reqs[i].response, reqs[i].ip,
                                                 g.asnDB, g.asnRawDB),
                            ASNQueries(reqs[i].ip, g.asnDB, g.asnRawDB))]
    /\ UNCHANGED << pc, c, clientIP, via, addr, verdict, g, main, daemon >>

\* Whois: getClientIP(c), net.ParseIP, g.cityDB.City(ip) and its headers.
Whois_Locate(i) ==
    /\ reqs[i].pc = "start"
    /\ reqs[i].handler = "Whois"
    /\ reqs' = [reqs EXCEPT ![i] =
                  WhoisFrom(@, getClientIPVia(reqs[i].c), g.cityDB)]
    /\ UNCHANGED << pc, c, clientIP, via, addr, verdict, g, main, daemon >>

\* Whois: g.asnDB.ASN(ip) and its headers, X-Client-IP, status 204.
Whois_Respond(i) ==
    /\ reqs[i].pc = "located"
    /\ reqs[i].handler = "Whois"
    /\ reqs' = [reqs EXCEPT ![i] = WhoisResponded(@, ASN(g.asnDB, reqs[i].ip))]
    /\ UNCHANGED << pc, c, clientIP, via, addr, verdict, g, main, daemon >>

\* The response has been written out; the handler's goroutine ends.
Finish(i) ==
    /\ reqs[i].pc = "done"
    /\ reqs' = [reqs EXCEPT ![i] = IdleHandler]
    /\ UNCHANGED << pc, c, clientIP, via, addr, verdict, g, main, daemon >>

\* NewGeoIPService has returned a service; no request is in flight.
InitServe ==
    /\ pc = "idle"
    /\ c = NoRequest
    /\ clientIP = Empty
    /\ via = "none"
    /\ addr = Empty
    /\ verdict = NoVerdict
    /\ g \in Services
    /\ reqs = [i \in 1..MaxRequests |-> IdleHandler]
    /\ main = Serving
    /\ daemon = NotRunning

NextServe ==
    \E i \in 1..MaxRequests :
       \/ Arrive(i)
       \/ LookupIP_Locate(i)
       \/ GetClientIP_Locate(i)
       \/ AddASN_Respond(i)
       \/ Whois_Locate(i)
       \/ Whois_Respond(i)
       \/ Finish(i)

SpecServe == InitServe /\ [][NextServe]_vars

(***************************************************************************)
(* func main from its first statement to the exit of the process           *)
(***************************************************************************)

\* main calls NewGeoIPService(dataDir).
CallNewGeoIPService ==
    /\ main.pc = "start"
    /\ main' = [main EXCEPT !.pc = "openCity"]
    /\ UNCHANGED << pc, c, clientIP, via, addr, verdict, g, reqs, daemon >>

\* NewGeoIPService opens the City database.
OpenCity ==
    /\ main.pc = "openCity"
    /\ main' = OpenCityDB(main)
    /\ UNCHANGED << pc, c, clientIP, via, addr, verdict, g, reqs, daemon >>

\* NewGeoIPService opens the ASN database.
OpenASN ==
    /\ main.pc = "openASN"
    /\ main' = OpenASNDB(main)
    /\ UNCHANGED << pc, c, clientIP, via, addr, verdict, g, reqs, daemon >>

\* NewGeoIPService opens the ASN database with maxminddb and returns.
OpenRaw ==
    /\ main.pc = "openRaw"
    /\ main' = OpenASNRawDB(main)
    /\ UNCHANGED << pc, c, clientIP, via, addr, verdict, g, reqs, daemon >>

\* err != nil: log.Fatalf("Failed to initialize GeoIP service: %v", err)
FatalInitialize ==
    /\ main.pc = "returned"
    /\ main.service = "nil"
    /\ main' = [main EXCEPT !.pc = "exited", !.exit = "Fatalf initialize"]
    /\ UNCHANGED << pc, c, clientIP, via, addr, verdict, g, reqs, daemon >>

\* defer geoIPService.Close(), the router, and the goroutine that runs
\* srv.ListenAndServe(): the server accepts requests.
ListenAndServe ==
    /\ main.pc = "returned"
    /\ main.service = "service"
    /\ main' = [main EXCEPT !.pc = "serving", !.accepting = TRUE]
    /\ UNCHANGED << pc, c, clientIP, via, addr, verdict, g, reqs, daemon >>

\* srv.ListenAndServe() returns an error that is not ErrServerClosed:
\* log.Fatalf("Failed to start server: %v", err)
FatalListen ==
    /\ main.pc = "returned"
    /\ main.service = "service"
    /\ main' = [main EXCEPT !.pc = "exited", !.exit = "Fatalf start"]
    /\ UNCHANGED << pc, c, clientIP, via, addr, verdict, g, reqs, daemon >>

\* The server accepts a request and starts its handler.
Accept ==
    /\ main.pc \in { "serving", "signalled" }
    /\ main.accepting
    /\ main.inflight < MaxInFlight
    /\ main' = [main EXCEPT !.inflight = @ + 1]
    /\ UNCHANGED << pc, c, clientIP, via, addr, verdict, g, reqs, daemon >>

\* A handler writes its response; its connection becomes idle.
Respond ==
    /\ main.pc \in { "serving", "signalled", "shutdown" }
    /\ main.inflight > 0
    /\ main' = [main EXCEPT !.inflight = @ - 1]
    /\ UNCHANGED << pc, c, clientIP, via, addr, verdict, g, reqs, daemon >>

\* SIGINT or SIGTERM: <-quit returns.
Signal ==
    /\ main.pc = "serving"
    /\ main' = [main EXCEPT !.pc = "signalled", !.signalled = TRUE]
    /\ UNCHANGED << pc, c, clientIP, via, addr, verdict, g, reqs, daemon >>

\* srv.Shutdown(ctx) with the 5 second context: the listener is closed.
Shutdown ==
    /\ main.pc = "signalled"
    /\ main' = [main EXCEPT !.pc = "shutdown", !.accepting = FALSE]
    /\ UNCHANGED << pc, c, clientIP, via, addr, verdict, g, reqs, daemon >>

\* Every connection is idle: srv.Shutdown returns nil; "Server exited".
ShutdownReturns ==
    /\ main.pc = "shutdown"
    /\ main.inflight = 0
    /\ main' = [main EXCEPT !.pc = "stopped"]
    /\ UNCHANGED << pc, c, clientIP, via, addr, verdict, g, reqs, daemon >>

\* The context expires with a request still in flight: srv.Shutdown
\* returns its error and log.Fatal("Server forced to shutdown:", err) ends
\* the process with os.Exit(1); deferred calls do not run.
FatalShutdown ==
    /\ main.pc = "shutdown"
    /\ main.inflight > 0
    /\ main' = [main EXCEPT !.pc = "exited", !.exit = "Fatal shutdown"]
    /\ UNCHANGED << pc, c, clientIP, via, addr, verdict, g, reqs, daemon >>

\* main returns: the deferred cancel() and geoIPService.Close() run.
Return ==
    /\ main.pc = "stopped"
    /\ main' = [Close(main) EXCEPT !.pc = "exited", !.exit = "return"]
    /\ UNCHANGED << pc, c, clientIP, via, addr, verdict, g, reqs, daemon >>

\* The process starts: the database files may or may not open, and the
\* readers may or may not close without error.
InitMain ==
    /\ pc = "idle"
    /\ c = NoRequest
    /\ clientIP = Empty
    /\ via = "none"
    /\ addr = Empty
    /\ verdict = NoVerdict
    /\ g = ServiceOf(EntryFull, EntryAbsent)
    /\ reqs = [i \in 1..MaxRequests |-> IdleHandler]
    /\ main \in { StartOfMain(f, e) : f \in Outcomes, e \in Outcomes }
    /\ daemon = NotRunning

NextMain ==
    \/ CallNewGeoIPService
    \/ OpenCity
    \/ OpenASN
    \/ OpenRaw
    \/ FatalInitialize
    \/ ListenAndServe
    \/ FatalListen
    \/ Accept
    \/ Respond
    \/ Signal
    \/ Shutdown
    \/ ShutdownReturns
    \/ FatalShutdown
    \/ Return

SpecMain == InitMain /\ [][NextMain]_vars

(***************************************************************************)
(* geoip-manager.sh, MODE=daemon: the loop over INTERVALS                   *)
(***************************************************************************)

\* case "$MODE" in "daemon"): read -ra INTERVALS, while true, for.
ReadIntervals ==
    /\ daemon.pc = "start"
    /\ daemon' = [daemon EXCEPT !.INTERVALS = ReadArray(daemon.UPDATE_INTERVAL),
                                !.k = 1, !.pc = "update"]
    /\ UNCHANGED << pc, c, clientIP, via, addr, verdict, g, reqs, main >>

\* One round of the for loop up to the update: echo "Updating
\* databases...", then update_with_geoipupdate or download_direct, each
\* followed by || echo "... failed, will retry in $interval".
Update ==
    /\ daemon.pc = "update"
    /\ \E failed \in BOOLEAN :
          LET interval == daemon.INTERVALS[daemon.k]
              status == IF daemon.tool THEN update_with_geoipupdate(failed)
                        ELSE download_direct(failed)
              report == IF status = 0 THEN << >>
                        ELSE << [echo |-> IF daemon.tool
                                          THEN "Update failed, will retry in"
                                          ELSE "Download failed, will retry in",
                                 interval |-> interval] >>
          IN daemon' = [daemon EXCEPT
                          !.failed = failed,
                          !.out = << [echo |-> "Updating databases...",
                                      interval |-> Empty] >> \o report,
                          !.slept = IF daemon.k = 1 THEN << >> ELSE @,
                          !.pc = "next"]
    /\ UNCHANGED << pc, c, clientIP, via, addr, verdict, g, reqs, main >>

\* echo "$(date): Next update in $interval"
EchoNext ==
    /\ daemon.pc = "next"
    /\ daemon' = [daemon EXCEPT
                    !.out = Append(@, [echo |-> "Next update in",
                                       interval |-> daemon.INTERVALS[daemon.k]]),
                    !.pc = "sleep"]
    /\ UNCHANGED << pc, c, clientIP, via, addr, verdict, g, reqs, main >>

\* sleep "$interval" returns 0; the for loop goes to the next interval, or
\* the while loop starts the for loop again.
Sleep ==
    /\ daemon.pc = "sleep"
    /\ SleepAccepts(daemon.INTERVALS[daemon.k])
    /\ daemon' = [daemon EXCEPT
                    !.slept = Append(@, daemon.INTERVALS[daemon.k]),
                    !.k = IF @ < Len(daemon.INTERVALS) THEN @ + 1 ELSE 1,
                    !.pc = "update"]
    /\ UNCHANGED << pc, c, clientIP, via, addr, verdict, g, reqs, main >>

\* sleep "$interval" rejects its argument and returns 1: under set -e the
\* script ends with that status.
SleepFails ==
    /\ daemon.pc = "sleep"
    /\ ~SleepAccepts(daemon.INTERVALS[daemon.k])
    /\ daemon' = [daemon EXCEPT !.pc = "exited", !.status = 1]
    /\ UNCHANGED << pc, c, clientIP, via, addr, verdict, g, reqs, main >>

\* The script is started with MODE=daemon and a license key.
InitDaemon ==
    /\ pc = "idle"
    /\ c = NoRequest
    /\ clientIP = Empty
    /\ via = "none"
    /\ addr = Empty
    /\ verdict = NoVerdict
    /\ g = ServiceOf(EntryFull, EntryAbsent)
    /\ reqs = [i \in 1..MaxRequests |-> IdleHandler]
    /\ main = Serving
    /\ daemon \in { StartOfDaemon(v, t) : v \in UpdateIntervals, t \in BOOLEAN }

NextDaemon == ReadIntervals \/ Update \/ EchoNext \/ Sleep \/ SleepFails

SpecDaemon == InitDaemon /\ [][NextDaemon]_vars

(***************************************************************************)
(* Properties                                                              *)
(***************************************************************************)

\* The address lies in one of the ranges the documentation lists, stated on
\* the bytes of the address: 10/8, 172.16/12, 192.168/16, 127/8, 169.254/16
\* for an IPv4 address; ::1, fc00::/7, fe80::/10 for an IPv6 one.
InListedRange(ip) ==
    LET v4 == To4(ip)
    IN IF v4 # NilIP
       THEN \/ v4[1] = 10
            \/ v4[1] = 172 /\ v4[2] \in 16..31
            \/ v4[1] = 192 /\ v4[2] = 168
            \/ v4[1] = 127
            \/ v4[1] = 169 /\ v4[2] = 254
       ELSE \/ ip = Zeros(15) \o << 1 >>
            \/ ip[1] \in {252, 253}
            \/ ip[1] = 254 /\ ip[2] \in 128..191

\* s is the text of an address outside the listed ranges.
PublicAddr(s) == LET ip == ParseIP(s) IN ip # NilIP /\ ~InListedRange(ip)

\* s is the text of an address inside one of the listed ranges.
PrivateAddr(s) == LET ip == ParseIP(s) IN ip # NilIP /\ InListedRange(ip)

\* The headers getClientIP consults.
Consulted == { "CF-Connecting-IP", "True-Client-IP", "X-Real-IP",
               "X-Forwarded-For", "X-Forwarded", "Forwarded" }

\* The headers that carry one address.
SingleValued == { "CF-Connecting-IP", "True-Client-IP", "X-Real-IP", "X-Forwarded" }

Resolved == pc = "resolved"

\* Every consulted header but those of keep is absent from the request.
OnlyConsulted(keep) == \A n \in Consulted \ keep : c.hdr[n] = Empty

\* The trimmed entries of the X-Forwarded-For value of request rq.
TrimmedEntries(rq) ==
    LET ips == Split(rq.hdr["X-Forwarded-For"], ",")
    IN [i \in 1..Len(ips) |-> TrimSpace(ips[i])]

Least(S) == CHOOSE i \in S : \A j \in S : i <= j

\* The order of the steps.
StepOrder == << "CF-Connecting-IP", "True-Client-IP", "X-Real-IP",
                "X-Forwarded-For", "X-Forwarded", "Forwarded", "RemoteAddr" >>

\* The candidate a step accepts for request rq, as a one-element sequence,
\* << >> when the step accepts none; stated from the documentation of the
\* steps.
StepCandidate(step, rq) ==
    IF step \in SingleValued
    THEN IF rq.hdr[step] # Empty /\ PublicAddr(rq.hdr[step])
         THEN << rq.hdr[step] >> ELSE << >>
    ELSE IF step = "X-Forwarded-For"
    THEN LET es == TrimmedEntries(rq)
             pubs == { i \in 1..Len(es) : PublicAddr(es[i]) }
         IN IF rq.hdr[step] = Empty THEN << >>
            ELSE IF pubs # {} THEN << es[Least(pubs)] >>
            ELSE IF ParseIP(es[1]) # NilIP THEN << es[1] >>
            ELSE << >>
    ELSE IF step = "Forwarded"
    THEN LET parts == Split(rq.hdr[step], ";")
             fors == { i \in 1..Len(parts) :
                          /\ HasPrefix(TrimSpace(parts[i]), ForPrefix)
                          /\ PublicAddr(ForValue(parts[i])) }
         IN IF rq.hdr[step] # Empty /\ fors # {}
            THEN << ForValue(parts[Least(fors)]) >> ELSE << >>
    ELSE << rq.peer >>

\* No step before step number k accepts a candidate for the request.
NoneBefore(k) == \A i \in 1..(k - 1) : StepCandidate(StepOrder[i], c) = << >>

\* C1: when CF-Connecting-IP carries a valid public IPv4 or IPv6 address and
\* no other consulted header is set, getClientIP returns exactly that value,
\* whatever the peer address is.
C1_CFConnectingIPReturned ==
    (/\ Resolved
     /\ PublicAddr(c.hdr["CF-Connecting-IP"])
     /\ OnlyConsulted({"CF-Connecting-IP"}))
    => clientIP = c.hdr["CF-Connecting-IP"]

C1_Witness ==
    /\ Resolved
    /\ c.hdr["CF-Connecting-IP"] = PublicV6
    /\ OnlyConsulted({"CF-Connecting-IP"})
    /\ c.peer = ClusterPeer
    /\ clientIP = PublicV6

\* C2: when the first entry of X-Forwarded-For is a private address and the
\* second a valid public IP (and no earlier header gives a candidate),
\* getClientIP returns the second entry, trimmed.
C2_FirstPublicEntryReturned ==
    LET es == TrimmedEntries(c)
    IN (/\ Resolved
        /\ NoneBefore(4)
        /\ Len(es) >= 2
        /\ PrivateAddr(es[1])
        /\ PublicAddr(es[2]))
       => clientIP = es[2]

C2_Witness ==
    /\ Resolved
    /\ c.hdr["X-Forwarded-For"] =
          JoinCommaSpace(<< PrivateOf(41), PublicOf(42), PrivateOf(43) >>)
    /\ clientIP = PublicOf(42)

\* C3 as stated: whenever X-Forwarded-For is set and holds no public IP
\* (and no earlier header gives a candidate), getClientIP returns the first
\* entry of the header.
C3_Original ==
    LET es == TrimmedEntries(c)
    IN (/\ Resolved
        /\ NoneBefore(4)
        /\ c.hdr["X-Forwarded-For"] # Empty
        /\ \A i \in 1..Len(es) : ~PublicAddr(es[i]))
       => clientIP = es[1]

\* C3 amended: whenever X-Forwarded-For is set, holds no public IP and its
\* first trimmed entry is a syntactically valid IP (and no earlier header
\* gives a candidate), getClientIP returns that first entry, not the peer
\* address.
C3_FirstEntryFallback ==
    LET es == TrimmedEntries(c)
    IN (/\ Resolved
        /\ NoneBefore(4)
        /\ c.hdr["X-Forwarded-For"] # Empty
        /\ \A i \in 1..Len(es) : ~PublicAddr(es[i])
        /\ ParseIP(es[1]) # NilIP)
       => /\ clientIP = es[1]
          /\ via = "X-Forwarded-For first"

C3_Witness ==
    /\ Resolved
    /\ c.hdr["X-Forwarded-For"] = JoinCommaSpace(<< PrivateOf(41), PrivateOf(42) >>)
    /\ c.peer = ClusterPeer
    /\ clientIP = PrivateOf(41)

\* C4: when none of the consulted headers is set, getClientIP returns
\* exactly the peer address, unchanged.
C4_PeerFallback ==
    (Resolved /\ OnlyConsulted({}))
    => /\ clientIP = c.peer
       /\ via = "RemoteAddr"

C4_Witness ==
    /\ Resolved
    /\ OnlyConsulted({})
    /\ c.hdr["Client-IP"] # Empty
    /\ c.peer = ClusterPeer
    /\ clientIP = ClusterPeer

\* C5 as stated: the string getClientIP returns always parses as an IPv4 or
\* IPv6 address; it is never empty or malformed.
C5_AlwaysParseable == Resolved => ParseIP(clientIP) # NilIP

\* C6: the result is the candidate of the earliest step, in the order
\* CF-Connecting-IP, True-Client-IP, X-Real-IP, X-Forwarded-For,
\* X-Forwarded, Forwarded, peer address, that accepts one, whatever the
\* headers of the later steps contain.
C6_FirstMatchWins ==
    Resolved =>
       LET cands == [i \in 1..Len(StepOrder) |-> StepCandidate(StepOrder[i], c)]
           k == Least({ i \in 1..Len(StepOrder) : cands[i] # << >> })
       IN /\ clientIP = cands[k][1]
          /\ via \in { StepOrder[k], StepOrder[k] \o " first" }

C6_Witness ==
    /\ Resolved
    /\ c.hdr["True-Client-IP"] = PublicOf(2)
    /\ c.hdr["X-Forwarded"] = PublicOf(5)
    /\ clientIP = PublicOf(2)

\* C7: a value returned from CF-Connecting-IP, True-Client-IP, X-Real-IP,
\* X-Forwarded, the for= parameter of Forwarded or the scan of
\* X-Forwarded-For parses as an IP and lies outside every private, loopback
\* and link-local range; the only header-derived result inside those ranges
\* comes from the first-entry fallback of X-Forwarded-For.
C7_HeaderResultsArePublic ==
    Resolved =>
       /\ via \in (SingleValued \cup {"X-Forwarded-For", "Forwarded"})
             => PublicAddr(clientIP)
       /\ via \in SingleValued => clientIP = c.hdr[via]
       /\ (via # "RemoteAddr" /\ ~PublicAddr(clientIP))
             => via = "X-Forwarded-For first"

C7_Witness ==
    /\ Resolved
    /\ c.hdr["CF-Connecting-IP"] = PrivateOf(1)
    /\ via = "Forwarded"
    /\ clientIP = PublicV6

\* C8: an address is classified private exactly when it parses and lies in
\* 10.0.0.0/8, 172.16.0.0/12, 192.168.0.0/16, 127.0.0.0/8, 169.254.0.0/16,
\* ::1/128, fc00::/7 or fe80::/10, and public exactly when it parses and
\* lies in none; 169.254.0.1, 127.0.0.1, fe80::1 and fc00::1 are private,
\* 8.8.8.8 and 2001:4860:4860::8888 are public.
C8_PrivateClassification ==
    verdict.done =>
       /\ verdict.private = PrivateAddr(addr)
       /\ verdict.public = PublicAddr(addr)
       /\ addr \in { LinkLocal4, FormatV4(127, 0, 0, 1), LinkLocal6,
                     << "f", "c", "0", "0" >> \o Loopback6 }
             => verdict.private /\ ~verdict.public
       /\ addr \in { FormatV4(8, 8, 8, 8), PublicV6 }
             => verdict.public /\ ~verdict.private

C8_Witness ==
    /\ verdict.done
    /\ addr = FormatV4(172, 31, 0, 1)
    /\ verdict.private

\* C9 as stated: removing a consulted header whose value is not a
\* syntactically valid IP never changes the result.
C9_Original ==
    Resolved =>
       \A n \in Consulted :
          (c.hdr[n] # Empty /\ ParseIP(c.hdr[n]) = NilIP)
             => clientIP = getClientIP([c EXCEPT !.hdr[n] = Empty])

\* Header n of the request is set and carries no syntactically valid IP: the
\* value of a single-value header does not parse; no trimmed entry of
\* X-Forwarded-For parses; no for= value of Forwarded parses.
CarriesNoIP(n) ==
    /\ c.hdr[n] # Empty
    /\ IF n = "X-Forwarded-For"
       THEN \A i \in 1..Len(TrimmedEntries(c)) : ParseIP(TrimmedEntries(c)[i]) = NilIP
       ELSE IF n = "Forwarded"
       THEN \A i \in 1..Len(Split(c.hdr[n], ";")) :
               HasPrefix(TrimSpace(Split(c.hdr[n], ";")[i]), ForPrefix)
                  => ParseIP(ForValue(Split(c.hdr[n], ";")[i])) = NilIP
       ELSE ParseIP(c.hdr[n]) = NilIP

\* C9 amended: a consulted header that carries no syntactically valid IP (a
\* single-value header whose value does not parse, an X-Forwarded-For none
\* of whose entries parses, a Forwarded header none of whose for= values
\* parses) is treated exactly as if it were absent: removing it never
\* changes the result.
C9_InvalidIsAbsent ==
    Resolved =>
       \A n \in Consulted :
          CarriesNoIP(n) => clientIP = getClientIP([c EXCEPT !.hdr[n] = Empty])

C9_Witness ==
    /\ Resolved
    /\ c.hdr["X-Real-IP"] = Unknown
    /\ c.hdr["X-Forwarded"] = PublicOf(5)
    /\ clientIP = PublicOf(5)

\* The secondary forwarding headers in the order of the documentation.
SecondaryOrder == << "Client-IP", "Cluster-Client-IP", "Original-Forwarded-For",
                     "X-Forwarded" >>

\* C10 as stated: when the first four steps give no candidate, the result
\* is the value of the first of Client-IP, Cluster-Client-IP,
\* Original-Forwarded-For and X-Forwarded that is a valid public IP.
C10_Original ==
    LET ok == { i \in 1..Len(SecondaryOrder) : PublicAddr(c.hdr[SecondaryOrder[i]]) }
    IN (Resolved /\ NoneBefore(5) /\ ok # {})
       => clientIP = c.hdr[SecondaryOrder[Least(ok)]]

\* C10 amended: when the first four steps give no candidate, the only
\* secondary forwarding header consulted is X-Forwarded: its value is
\* returned when it is a valid public IP, before the Forwarded header and
\* the peer address are looked at; Client-IP, Cluster-Client-IP and
\* Original-Forwarded-For are never read.
C10_OnlyXForwarded ==
    (Resolved /\ NoneBefore(5)) =>
       /\ PublicAddr(c.hdr["X-Forwarded"])
             => clientIP = c.hdr["X-Forwarded"] /\ via = "X-Forwarded"
       /\ ~PublicAddr(c.hdr["X-Forwarded"])
             => via \in {"Forwarded", "RemoteAddr"}

C10_Witness ==
    /\ Resolved
    /\ c.hdr["X-Forwarded"] = PublicOf(5)
    /\ c.hdr["Forwarded"] = ForPrefix \o PublicOf(6)
    /\ clientIP = PublicOf(5)

RECURSIVE ForsOf(_)
\* The for= values among the parameters of one forwarded-element, quotes and
\* brackets removed.
ForsOf(params) ==
    IF params = << >> THEN << >>
    ELSE (IF HasPrefix(TrimSpace(Head(params)), ForPrefix)
          THEN << ForValue(Head(params)) >> ELSE << >>) \o ForsOf(Tail(params))

RECURSIVE ElementFors(_)
\* The for= values of the forwarded-elements, in header order: elements are
\* separated by commas, the parameters of an element by semicolons.
ElementFors(elems) ==
    IF elems = << >> THEN << >>
    ELSE ForsOf(Split(Head(elems), ";")) \o ElementFors(Tail(elems))

\* C11: when no earlier step yields a candidate and Forwarded is set, the
\* result is the first for= value, over the comma-separated elements and
\* their semicolon-separated parameters, that is a valid public IP; so
\* "for=10.0.0.1, for=8.8.8.8" resolves to 8.8.8.8.
C11_ForwardedElements ==
    (Resolved /\ NoneBefore(6) /\ c.hdr["Forwarded"] # Empty) =>
       LET fs   == ElementFors(Split(c.hdr["Forwarded"], ","))
           pubs == { i \in 1..Len(fs) : PublicAddr(fs[i]) }
       IN pubs # {} => clientIP = fs[Least(pubs)]

\* C13: a call of getClientIP changes nothing: the request (headers and
\* peer address), the service's reader handles and every other piece of
\* state are after the call what they were before it; only the caller's
\* result is new.
C13_ResolverChangesNothing ==
    [][(pc = "received" /\ pc' = "resolved") =>
          /\ c' = c
          /\ g' = g
          /\ reqs' = reqs
          /\ addr' = addr
          /\ verdict' = verdict
          /\ main' = main
          /\ daemon' = daemon]_vars

C13_Witness ==
    /\ Resolved
    /\ via = "X-Forwarded-For"
    /\ c.hdr["X-Forwarded-For"] # Empty
    /\ clientIP # c.hdr["X-Forwarded-For"]

\* The handlers of LookupIP or GetClientIP that have answered.
LookupsDone ==
    { i \in 1..MaxRequests :
         reqs[i].pc = "done" /\ reqs[i].handler \in { "LookupIP", "GetClientIP" } }

\* The string request handler r looks up: the path parameter, or the
\* address the resolver gives for the request.
InputOf(r) == IF r.handler = "LookupIP" THEN r.c.param ELSE getClientIP(r.c)

\* What the databases of the service hold for address ip: whether the
\* City (ASN) query fails, and the record it gives (the zero record for an
\* address without entry).
CityFails(ip) ==
    \/ g.cityDB.unusable
    \/ ip \in DOMAIN g.cityDB.entries /\ g.cityDB.entries[ip].err

CityRecordOf(ip) ==
    IF ip \in DOMAIN g.cityDB.entries THEN g.cityDB.entries[ip].rec ELSE ZeroCity

ASNFails(ip) ==
    \/ g.asnDB.unusable
    \/ ip \in DOMAIN g.asnDB.entries /\ g.asnDB.entries[ip].err

ASNRecordOf(ip) ==
    IF ip \in DOMAIN g.asnDB.entries THEN g.asnDB.entries[ip].rec ELSE ZeroASN

\* The network query for ip gives a network.
NetworkFound(ip) ==
    /\ ~g.asnRawDB.nil
    /\ ~g.asnRawDB.unusable
    /\ ip \in DOMAIN g.asnRawDB.entries
    /\ ~g.asnRawDB.entries[ip].err
    /\ g.asnRawDB.entries[ip].ok
    /\ g.asnRawDB.entries[ip].network # Empty

\* C14: LookupIP has exactly two error outcomes, and they are distinct: 400
\* exactly when the path parameter is empty or does not parse as an IP, and
\* then no reader has been queried; 500 exactly when the parameter parses
\* and the City query fails; every other request is answered 200 without
\* error.
C14_TwoErrorOutcomes ==
    \A i \in 1..MaxRequests :
       (reqs[i].pc = "done" /\ reqs[i].handler = "LookupIP") =>
          LET ip == ParseIP(reqs[i].c.param)
          IN /\ reqs[i].code \in { 200, 400, 500 }
             /\ reqs[i].code = 400 <=> (reqs[i].c.param = Empty \/ ip = NilIP)
             /\ reqs[i].code = 400 => reqs[i].queries = << >>
             /\ reqs[i].code = 500 <=> (ip # NilIP /\ CityFails(ip))
             /\ "error" \in DOMAIN reqs[i].body <=> reqs[i].code # 200

C14_Witness ==
    \E i, j \in 1..MaxRequests :
       /\ reqs[i].pc = "done" /\ reqs[i].handler = "LookupIP"
       /\ reqs[i].code = 500 /\ reqs[i].queries = << "City" >>
       /\ reqs[j].pc = "done" /\ reqs[j].handler = "LookupIP"
       /\ reqs[j].code = 400 /\ reqs[j].c.param = Unknown

\* The members of the JSON object that carry the location record; the
\* accuracy radius is optional.
LocationKeys == { "country", "country_code", "region", "region_code", "city",
                  "postal_code", "latitude", "longitude", "timezone" }

\* The members that carry the network-ownership record.
ASNKeys == { "asn", "asn_org", "asn_network" }

\* C15: a failing ASN query never fails the request: whenever the address
\* looked up parses and the City query succeeds, LookupIP and GetClientIP
\* answer 200 with all location fields, and if the ASN query failed the ASN
\* number, organization and network keep their zero and empty defaults.
C15_ASNFailureIsNotFatal ==
    \A i \in LookupsDone :
       LET ip == reqs[i].ip
       IN (ip # NilIP /\ ~CityFails(ip)) =>
             /\ reqs[i].code = 200
             /\ LocationKeys \subseteq DOMAIN reqs[i].body
             /\ reqs[i].body["country_code"] = CityRecordOf(ip).Country.IsoCode
             /\ ASNFails(ip) =>
                   /\ reqs[i].response.ASN = 0
                   /\ reqs[i].response.ASNOrg = Empty
                   /\ reqs[i].response.ASNNetwork = Empty
                   /\ DOMAIN reqs[i].body \cap ASNKeys = {}

C15_Witness ==
    \E i \in LookupsDone :
       /\ ASNFails(reqs[i].ip)
       /\ reqs[i].handler = "GetClientIP"
       /\ reqs[i].code = 200
       /\ reqs[i].body["country_code"] = << "U", "S" >>
       /\ "asn" \notin DOMAIN reqs[i].body

\* C16: the matched network is optional enrichment: asn_network is set only
\* when the ASN query succeeded, the raw reader is there and its network
\* query gave a network; when the ASN query succeeded and the raw reader is
\* nil or its query gave none, the request still succeeds with the ASN
\* number and organization filled and asn_network alone left empty.
C16_NetworkIsOptional ==
    \A i \in LookupsDone :
       LET ip == reqs[i].ip
       IN /\ ("asn_network" \in DOMAIN reqs[i].body \/ reqs[i].response.ASNNetwork # Empty)
               => (ip # NilIP /\ ~ASNFails(ip) /\ NetworkFound(ip))
          /\ (reqs[i].code = 200 /\ NetworkFound(ip) /\ ~ASNFails(ip))
               => reqs[i].body["asn_network"] = g.asnRawDB.entries[ip].network
          /\ (ip # NilIP /\ ~CityFails(ip) /\ ~ASNFails(ip) /\ ~NetworkFound(ip)) =>
                /\ reqs[i].code = 200
                /\ reqs[i].response.ASN = ASNRecordOf(ip).AutonomousSystemNumber
                /\ reqs[i].response.ASNOrg = ASNRecordOf(ip).AutonomousSystemOrganization
                /\ reqs[i].response.ASNNetwork = Empty
                /\ "asn_network" \notin DOMAIN reqs[i].body

C16_Witness ==
    \E i \in LookupsDone :
       /\ reqs[i].code = 200
       /\ { "asn", "asn_org" } \subseteq DOMAIN reqs[i].body
       /\ reqs[i].body["asn"] = 15169
       /\ "asn_network" \notin DOMAIN reqs[i].body
       /\ reqs[i].ip \in DOMAIN g.asnRawDB.entries
       /\ g.asnRawDB.entries[reqs[i].ip].network # Empty

\* C17: every successful lookup result carries all location fields, with
\* empty or zero defaults for what the reader did not give: every field is
\* that of the city record, region and region_code are empty when the
\* record has no subdivision and are the English name and the code of the
\* first subdivision otherwise, and the ip field is the input string as it
\* was given.
C17_AllLocationFields ==
    \A i \in LookupsDone :
       reqs[i].code = 200 =>
          LET in   == InputOf(reqs[i])
              rec  == CityRecordOf(reqs[i].ip)
              subs == rec.Subdivisions
              r    == reqs[i].response
              b    == reqs[i].body
          IN /\ r.IP = in /\ b["ip"] = in
             /\ LocationKeys \subseteq DOMAIN b
             /\ IF subs = << >>
                THEN r.Region = Empty /\ r.RegionCode = Empty
                ELSE /\ r.Region = (IF "en" \in DOMAIN subs[1].Names
                                    THEN subs[1].Names["en"] ELSE Empty)
                     /\ r.RegionCode = subs[1].IsoCode
             /\ b["region"] = r.Region /\ b["region_code"] = r.RegionCode
             /\ b["country"] = (IF "en" \in DOMAIN rec.Country.Names
                                THEN rec.Country.Names["en"] ELSE Empty)
             /\ b["country_code"] = rec.Country.IsoCode
             /\ b["city"] = (IF "en" \in DOMAIN rec.City.Names
                             THEN rec.City.Names["en"] ELSE Empty)
             /\ b["postal_code"] = rec.Postal.Code
             /\ b["latitude"] = rec.Location.Latitude
             /\ b["longitude"] = rec.Location.Longitude
             /\ b["timezone"] = rec.Location.TimeZone
             /\ r.AccuracyRadius = rec.Location.AccuracyRadius

C17_Witness ==
    \E i \in LookupsDone :
       /\ reqs[i].code = 200
       /\ reqs[i].c.param = MappedPrefix \o GoogleDNS
       /\ reqs[i].body["ip"] = MappedPrefix \o GoogleDNS
       /\ Len(CityRecordOf(reqs[i].ip).Subdivisions) = 2
       /\ reqs[i].body["region_code"] = << "C", "A" >>

\* The location database has an entry for ip: the City query gives a
\* record, not the zero record and not an error.
HasCityEntry(ip) == ~CityFails(ip) /\ CityRecordOf(ip) # ZeroCity

\* The ASN database has an entry for ip.
HasASNEntry(ip) == ~ASNFails(ip) /\ ASNRecordOf(ip) # ZeroASN

\* C18: a lookup of an address both databases contain gives a record with
\* non-empty country and ASN fields, and a lookup of a parsed address
\* without entry in the location database gives the location failure, not
\* a success record with empty fields.
C18_FoundOrNotFound ==
    \A i \in 1..MaxRequests :
       (reqs[i].pc = "done" /\ reqs[i].handler = "LookupIP") =>
          LET ip == reqs[i].ip
          IN /\ (ip # NilIP /\ HasCityEntry(ip) /\ HasASNEntry(ip)) =>
                   /\ reqs[i].code = 200
                   /\ reqs[i].body["country"] # Empty
                   /\ reqs[i].body["country_code"] # Empty
                   /\ { "asn", "asn_org" } \subseteq DOMAIN reqs[i].body
             /\ (ip # NilIP /\ ~CityFails(ip) /\ CityRecordOf(ip) = ZeroCity) =>
                   /\ reqs[i].code # 200
                   /\ "error" \in DOMAIN reqs[i].body

\* C19 as stated: a request handled while any of the three readers is
\* unavailable ends with the lookup error.
C19_Original ==
    \A i \in LookupsDone :
       (/\ reqs[i].ip # NilIP
        /\ (g.cityDB.unusable \/ g.asnDB.unusable \/ g.asnRawDB.unusable))
          => (reqs[i].code = 500 /\ "error" \in DOMAIN reqs[i].body)

\* C19 amended: a LookupIP or GetClientIP request whose City query fails
\* (the City reader is unavailable, or fails for that address) ends with the
\* 500 lookup error, and that request alone: every request in flight with
\* it whose own City query succeeds gets its 200 response, also when the
\* ASN readers are unavailable, and Whois answers 204 in every case.
C19_LocationReaderUnavailable ==
    /\ \A i \in LookupsDone :
          LET ip == reqs[i].ip
          IN /\ (ip # NilIP /\ CityFails(ip)) =>
                   (reqs[i].code = 500 /\ DOMAIN reqs[i].body = { "error" })
             /\ (ip # NilIP /\ ~CityFails(ip)) =>
                   /\ reqs[i].code = 200
                   /\ "error" \notin DOMAIN reqs[i].body
                   /\ reqs[i].body["ip"] = InputOf(reqs[i])
    /\ \A i \in 1..MaxRequests :
          (reqs[i].pc = "done" /\ reqs[i].handler = "Whois") => reqs[i].code = 204

C19_Witness ==
    \E i, j \in LookupsDone :
       /\ reqs[i].handler = "LookupIP"
       /\ reqs[i].code = 500
       /\ reqs[i].c.param = GoogleDNS
       /\ reqs[j].code = 200
       /\ reqs[j].body["country_code"] = << "U", "S" >>

\* The handler of request rq at its first line.
Started(rq) == [IdleHandler EXCEPT !.pc = "start", !.handler = rq.handler, !.c = rq.c]

\* The second half of a handler run on r with service s, if r has not
\* answered yet.
Completed(s, r) ==
    IF r.pc = "done" THEN r
    ELSE IF r.handler = "Whois" THEN WhoisResponded(r, ASN(s.asnDB, r.ip))
    ELSE Responded(r, AddASNInformation(r.response, r.ip, s.asnDB, s.asnRawDB),
                   ASNQueries(r.ip, s.asnDB, s.asnRawDB))

\* The handler of request rq run with service s from its first line to its
\* last with no other request in flight.
HandledAlone(s, rq) ==
    Completed(s,
       IF rq.handler = "LookupIP"
       THEN LookupIPLocated(Started(rq), rq.c.param, ParseIP(rq.c.param), s.cityDB)
       ELSE IF rq.handler = "GetClientIP"
       THEN GetClientIPResolved(Started(rq), getClientIPVia(rq.c), s.cityDB)
       ELSE WhoisFrom(Started(rq), getClientIPVia(rq.c), s.cityDB))

\* C20: requests handled concurrently do not interfere: under every
\* interleaving of the steps of the LookupIP, GetClientIP and Whois handlers
\* in flight, the response of each (status code, body, headers) is the one
\* the same request gets when handled alone, and the readers are as
\* NewGeoIPService left them.
C20_NoInterference ==
    /\ g \in Services
    /\ \A i \in 1..MaxRequests :
          reqs[i].pc = "done" =>
             LET alone == HandledAlone(g, [handler |-> reqs[i].handler, c |-> reqs[i].c])
             IN /\ reqs[i].code = alone.code
                /\ reqs[i].body = alone.body
                /\ reqs[i].header = alone.header

\* A LookupIP request has answered while a GetClientIP request for another
\* address is between its City query and its ASN query.
C20_Witness ==
    \E i, j \in 1..MaxRequests :
       /\ reqs[i].pc = "done" /\ reqs[i].handler = "LookupIP"
       /\ reqs[i].code = 200 /\ reqs[i].c.param = PublicOf(1)
       /\ reqs[j].pc = "located" /\ reqs[j].handler = "GetClientIP"
       /\ reqs[j].ipStr = GoogleDNS

\* A later step has a candidate: X-Forwarded carries a valid public IP, or
\* Forwarded a for= value that is one.
LaterStepHasPublic ==
    \/ StepCandidate("X-Forwarded", c) # << >>
    \/ StepCandidate("Forwarded", c) # << >>

\* C21: when X-Forwarded-For is set, holds no public entry and its first
\* trimmed entry is a valid private IP (and no earlier header gives a
\* candidate), getClientIP returns that private first entry although
\* X-Forwarded or Forwarded carries a valid public IP: the fallback of the
\* X-Forwarded-For step comes before every later step.
C21_PrivateFallbackBeforeLaterSteps ==
    LET es == TrimmedEntries(c)
    IN (/\ Resolved
        /\ NoneBefore(4)
        /\ c.hdr["X-Forwarded-For"] # Empty
        /\ \A i \in 1..Len(es) : ~PublicAddr(es[i])
        /\ PrivateAddr(es[1])
        /\ LaterStepHasPublic)
       => /\ clientIP = es[1]
          /\ via \notin { "X-Forwarded", "Forwarded", "RemoteAddr" }

C21_Witness ==
    /\ Resolved
    /\ c.hdr["X-Forwarded-For"] = JoinCommaSpace(<< PrivateOf(41), Unknown >>)
    /\ c.hdr["X-Forwarded"] = PublicOf(5)
    /\ clientIP = PrivateOf(41)

\* C22: when X-Forwarded-For holds no public entry and its first trimmed
\* entry is not a valid IP (and no earlier header gives a candidate), the
\* header is passed over: the result is that of the later steps, as if the
\* header were absent, also when a later entry of the header is a valid
\* private IP ("unknown, 10.0.0.42" does not resolve to 10.0.0.42).
C22_InvalidFirstEntrySkipsHeader ==
    LET es == TrimmedEntries(c)
    IN (/\ Resolved
        /\ NoneBefore(4)
        /\ c.hdr["X-Forwarded-For"] # Empty
        /\ \A i \in 1..Len(es) : ~PublicAddr(es[i])
        /\ ParseIP(es[1]) = NilIP)
       => /\ via \in { "X-Forwarded", "Forwarded", "RemoteAddr" }
          /\ LET later == StepCandidate("X-Forwarded", c)
                            \o StepCandidate("Forwarded", c) \o << c.peer >>
             IN clientIP = later[1]

C22_Witness ==
    /\ Resolved
    /\ c.hdr["X-Forwarded-For"] = JoinCommaSpace(<< Unknown, PrivateOf(42) >>)
    /\ c.peer = ClusterPeer
    /\ clientIP = ClusterPeer

\* The GetClientIP handlers past their first step.
ClientLookups ==
    { i \in 1..MaxRequests :
         reqs[i].handler = "GetClientIP" /\ reqs[i].pc \in { "located", "done" } }

\* A header step of the resolver has a candidate for request rq.
HeaderStepHasCandidate(rq) ==
    \E k \in 1..6 : StepCandidate(StepOrder[k], rq) # << >>

\* C23: GetClientIP answers 400 "Unable to determine client IP" only when
\* the resolver fell through to the peer address and that address does not
\* parse as an IP, and then without querying a reader; whenever a header
\* step of the resolver gave the result, the handler goes on to the City
\* query, whatever the peer address is.
C23_BadRequestOnlyFromPeer ==
    \A i \in ClientLookups :
       LET rq == reqs[i].c
       IN /\ reqs[i].code = 400 <=>
                (~HeaderStepHasCandidate(rq) /\ ParseIP(rq.peer) = NilIP)
          /\ reqs[i].code = 400 =>
                /\ reqs[i].via = "RemoteAddr"
                /\ reqs[i].body = ErrorBody("Unable to determine client IP")
                /\ reqs[i].queries = << >>
          /\ HeaderStepHasCandidate(rq) =>
                /\ reqs[i].via # "RemoteAddr"
                /\ reqs[i].queries # << >>
                /\ reqs[i].queries[1] = "City"
                /\ reqs[i].code \in { 0, 200, 500 }

C23_Witness ==
    \E i, j \in ClientLookups :
       /\ reqs[i].code = 400
       /\ reqs[i].c.peer = Empty
       /\ reqs[j].c.peer = Empty
       /\ reqs[j].via = "CF-Connecting-IP"
       /\ reqs[j].queries[1] = "City"
       /\ reqs[j].pc = "done"
       /\ reqs[j].code = 200

\* The handlers of LookupIP and GetClientIP, running or done.
Lookups ==
    { i \in 1..MaxRequests : reqs[i].handler \in { "LookupIP", "GetClientIP" } }

\* s is an initial part of t.
IsPrefix(s, t) == Len(s) <= Len(t) /\ \A k \in 1..Len(s) : s[k] = t[k]

\* C24: in LookupIP and GetClientIP the steps come in one order: the
\* readers are queried in the order City, ASN, network; the City query is
\* made only with an address that parsed; the ASN and network queries are
\* made only after the City query succeeded; and when the City query fails
\* the response is 500 and the City query is the only one made.
C24_StepsInOrder ==
    \A i \in Lookups :
       LET q == reqs[i].queries
       IN /\ IsPrefix(q, << "City", "ASN", "LookupNetwork" >>)
          /\ q # << >> =>
                /\ reqs[i].ip # NilIP
                /\ reqs[i].ip = ParseIP(reqs[i].ipStr)
          /\ Len(q) >= 2 =>
                /\ ~CityFails(reqs[i].ip)
                /\ reqs[i].response.IP = reqs[i].ipStr
                /\ reqs[i].code = 200
          /\ Len(q) = 3 => ~ASNFails(reqs[i].ip)
          /\ (reqs[i].ip # NilIP /\ CityFails(reqs[i].ip)) =>
                /\ reqs[i].pc = "done"
                /\ reqs[i].code = 500
                /\ q = << "City" >>
          /\ reqs[i].code = 200 => Len(q) >= 2

C24_Witness ==
    \E i, j \in Lookups :
       /\ reqs[i].code = 500
       /\ reqs[i].queries = << "City" >>
       /\ reqs[j].code = 200
       /\ reqs[j].queries = << "City", "ASN", "LookupNetwork" >>
       /\ reqs[j].handler = "GetClientIP"

\* The Whois handlers that have answered.
WhoisDone ==
    { i \in 1..MaxRequests : reqs[i].pc = "done" /\ reqs[i].handler = "Whois" }

\* C25: Whois answers every request 204 without body, and the response
\* carries X-Client-IP with the string the resolver returned, also when
\* that string does not parse as an IP and when the City or the ASN query
\* fails.
C25_WhoisAlwaysClientIP ==
    \A i \in WhoisDone :
       /\ reqs[i].code = 204
       /\ reqs[i].body = NoFields
       /\ "X-Client-IP" \in DOMAIN reqs[i].header
       /\ reqs[i].header["X-Client-IP"] = getClientIP(reqs[i].c)

\* The headers Whois writes from the city record: five always, two for the
\* first subdivision.
LocationHeaders == { "X-GeoIP-Country", "X-GeoIP-Country-Name", "X-GeoIP-City",
                     "X-GeoIP-Postal", "X-GeoIP-Timezone" }

RegionHeaders == { "X-GeoIP-Region", "X-GeoIP-Region-Code" }

\* The headers Whois writes from the ASN record.
OwnerHeaders == { "X-GeoIP-ASN", "X-GeoIP-Organization" }

\* C26 as stated: the two ASN headers are in the response exactly when the
\* resolved IP parses and the ASN query succeeds, and the location headers
\* exactly when the resolved IP parses and the City query succeeds.
C26_Original ==
    \A i \in WhoisDone :
       LET ip == reqs[i].ip
           h  == DOMAIN reqs[i].header
       IN /\ OwnerHeaders \subseteq h <=> (ip # NilIP /\ ~ASNFails(ip))
          /\ LocationHeaders \subseteq h <=> (ip # NilIP /\ ~CityFails(ip))

\* The value Whois hands to c.Header for header k of city record rec with
\* at least one subdivision where k is a region header.
LocationValue(k, rec) ==
    CASE k = "X-GeoIP-Country"      -> rec.Country.IsoCode
      [] k = "X-GeoIP-Country-Name" -> NameEn(rec.Country.Names)
      [] k = "X-GeoIP-City"         -> NameEn(rec.City.Names)
      [] k = "X-GeoIP-Postal"       -> rec.Postal.Code
      [] k = "X-GeoIP-Timezone"     -> rec.Location.TimeZone
      [] k = "X-GeoIP-Region"       -> NameEn(rec.Subdivisions[1].Names)
      [] k = "X-GeoIP-Region-Code"  -> rec.Subdivisions[1].IsoCode

\* C26 amended: Whois writes the ASN headers exactly when the resolved IP
\* parses and the ASN query succeeds, whether or not the City query
\* succeeded, and the location headers exactly when the resolved IP parses
\* and the City query succeeds, the two region headers only when the record
\* has a subdivision; a header written with an empty value is not in the
\* response. So X-GeoIP-ASN, the number in decimal, is there exactly when
\* the IP parses and the ASN query succeeds ("0" for an address without
\* entry), and every other header exactly when, besides, its value in the
\* record is not empty.
C26_WhoisHeaders ==
    \A i \in WhoisDone :
       LET ip   == reqs[i].ip
           h    == reqs[i].header
           asn  == ASNRecordOf(ip)
           rec  == CityRecordOf(ip)
           asnOK  == ip # NilIP /\ ~ASNFails(ip)
           cityOK == ip # NilIP /\ ~CityFails(ip)
       IN /\ "X-GeoIP-ASN" \in DOMAIN h <=> asnOK
          /\ asnOK => h["X-GeoIP-ASN"] = Itoa(asn.AutonomousSystemNumber)
          /\ "X-GeoIP-Organization" \in DOMAIN h <=>
                (asnOK /\ asn.AutonomousSystemOrganization # Empty)
          /\ "X-GeoIP-Organization" \in DOMAIN h =>
                h["X-GeoIP-Organization"] = asn.AutonomousSystemOrganization
          /\ \A k \in LocationHeaders :
                /\ k \in DOMAIN h <=> (cityOK /\ LocationValue(k, rec) # Empty)
                /\ k \in DOMAIN h => h[k] = LocationValue(k, rec)
          /\ \A k \in RegionHeaders :
                /\ k \in DOMAIN h <=>
                      (/\ cityOK
                       /\ Len(rec.Subdivisions) > 0
                       /\ LocationValue(k, rec) # Empty)
                /\ k \in DOMAIN h => h[k] = LocationValue(k, rec)

\* Whois has answered a request from an address without entry in either
\* database: both queries succeeded, and of the X-GeoIP headers only
\* X-GeoIP-ASN is there.
C26_Witness ==
    \E i \in WhoisDone :
       /\ reqs[i].ip = ParseIP(ClusterPeer)
       /\ ~CityFails(reqs[i].ip)
       /\ ~ASNFails(reqs[i].ip)
       /\ reqs[i].header["X-GeoIP-ASN"] = << "0" >>
       /\ DOMAIN reqs[i].header = { "X-GeoIP-ASN", "X-Client-IP" }

\* The readers named in the calls of kind op ("Open" or "Close") made so
\* far, in order.
CallsOf(op) ==
    LET sel == SelectSeq(main.calls, LAMBDA x : x[1] = op)
    IN [k \in 1..Len(sel) |-> sel[k][2]]

\* The readers whose Open succeeded.
OpenedReaders ==
    { ReaderOrder[k] : k \in { j \in 1..Len(CallsOf("Open")) : main.files[ReaderOrder[j]] } }

\* C27: NewGeoIPService opens the City reader, the ASN reader and the raw
\* ASN reader in that order and stops at the first open that fails; when an
\* open fails it returns no service and every reader opened before has been
\* closed, none is left open; it returns a service exactly when all three
\* opens succeed, and then all three readers are open.
C27_OpenAllOrNothing ==
    /\ IsPrefix(CallsOf("Open"), ReaderOrder)
    /\ \A k \in 1..Len(CallsOf("Open")) - 1 : main.files[ReaderOrder[k]]
    /\ main.service = "nil" =>
          /\ \E n \in ReaderNames : ~main.files[n]
          /\ ~main.files[ReaderOrder[Len(CallsOf("Open"))]]
          /\ main.open = {}
          /\ { CallsOf("Close")[k] : k \in 1..Len(CallsOf("Close")) } = OpenedReaders
          /\ main.handles = {}
    /\ main.service = "service" =>
          /\ \A n \in ReaderNames : main.files[n]
          /\ CallsOf("Open") = ReaderOrder
          /\ main.handles = ReaderNames
          /\ main.closeReturned = "none" => main.open = ReaderNames
    /\ (main.pc \in { "returned", "exited" } /\ \A n \in ReaderNames : main.files[n])
          => main.service = "service"

C27_Witness ==
    /\ main.service = "nil"
    /\ main.files = [n \in ReaderNames |-> n # "asnRawDB"]
    /\ main.open = {}
    /\ main.calls = << << "Open", "cityDB" >>, << "Open", "asnDB" >>,
                       << "Open", "asnRawDB" >>, << "Close", "cityDB" >>,
                       << "Close", "asnDB" >> >>

\* C28: Close calls the Close of every reader of the service, in the order
\* City, ASN, raw ASN, also after an earlier one returned an error, and
\* returns the error of the first reader in that order whose Close failed,
\* nil when none failed.
C28_CloseClosesAll ==
    main.closeReturned # "none" =>
       /\ CallsOf("Close") = ReaderOrder
       /\ main.open = {}
       /\ main.closeReturned =
             (IF main.closeErr["cityDB"] THEN "err1"
              ELSE IF main.closeErr["asnDB"] THEN "err2"
              ELSE IF main.closeErr["asnRawDB"] THEN "err3"
              ELSE "nil")

C28_Witness ==
    /\ main.closeReturned = "err1"
    /\ main.closeErr = [n \in ReaderNames |-> n # "asnDB"]
    /\ CallsOf("Close") = ReaderOrder

\* GeoIPService.Close has run.
CloseRan == main.closeReturned # "none"

\* C29: after SIGINT or SIGTERM the server stops accepting requests once
\* Shutdown is called; Close runs only after the server has stopped, with no
\* request in flight; and on every path by which the process exits after
\* the signal Close has run.
C29_GracefulShutdown ==
    /\ main.pc \in { "shutdown", "stopped" } => ~main.accepting
    /\ CloseRan => (main.signalled /\ ~main.accepting /\ main.inflight = 0)
    /\ (main.pc = "exited" /\ main.signalled) => CloseRan

\* The script has echoed that the update of this round failed.
FailureReported ==
    \E k \in 1..Len(daemon.out) :
       /\ daemon.out[k].echo \in { "Update failed, will retry in",
                                   "Download failed, will retry in" }
       /\ daemon.out[k].interval = daemon.INTERVALS[daemon.k]

RECURSIVE JoinComma(_)
\* The values of a list joined by ",".
JoinComma(l) ==
    IF l = << >> THEN << >>
    ELSE IF Len(l) = 1 THEN l[1]
    ELSE l[1] \o << "," >> \o JoinComma(Tail(l))

\* C30: in daemon mode the script never ends; it goes through the
\* comma-separated values of UPDATE_INTERVAL in order, again and again; and
\* a failed update or download is reported by the script and followed by
\* the sleep for the current interval.
C30_DaemonRunsForever ==
    /\ daemon.pc # "exited"
    /\ daemon.pc \in { "update", "next", "sleep" } =>
          /\ daemon.UPDATE_INTERVAL \in { JoinComma(daemon.INTERVALS),
                                         JoinComma(daemon.INTERVALS) \o << "," >> }
          /\ daemon.k \in 1..Len(daemon.INTERVALS)
    /\ daemon.pc \in { "next", "sleep" } =>
          /\ daemon.slept = SubSeq(daemon.INTERVALS, 1, daemon.k - 1)
          /\ daemon.failed => FailureReported

====
